---------------------------- MODULE Spec2Model ----------------------------
(***************************************************************************)
(* A model of nupic/research/spatial_pooler.py (class SpatialPooler).      *)
(*                                                                         *)
(* Numbers.  Permanences and the synPerm* parameters are integers counted  *)
(* in units of 1/synPermMax of a fully grown synapse (the source's 1.0 is  *)
(* synPermMax units).  Every other real of the source (duty cycles, boost  *)
(* factors, tie breakers, densities, scores) is an exact rational <<n, d>> *)
(* in lowest terms with d > 0; floating-point rounding is not modelled.    *)
(* Columns and inputs are indexed from 0 as in the source.                 *)
(***************************************************************************)
EXTENDS Integers, Sequences, FiniteSets, TLC

VARIABLES
  sp,           \* the SpatialPooler instance: a record of its fields
  activeArray,  \* the caller's output array of the last compute call
  lastCall,     \* the call that produced the current state, with its result
  trace,        \* intermediate values of the last compute call
  nSetCalls,    \* number of setter calls made so far
  sp2,          \* a second instance (two-instance runs)
  activeArray2  \* the output array handed to the second instance

vars == <<sp, activeArray, lastCall, trace, nSetCalls, sp2, activeArray2>>

---------------------------------------------------------------------------
(* Exact rational arithmetic standing for the source's float arithmetic.   *)

Abs(x) == IF x < 0 THEN -x ELSE x

RECURSIVE GCD(_, _)
GCD(a, b) == IF b = 0 THEN a ELSE GCD(b, a % b)

Rat(n, d) ==
  LET sgn == IF d < 0 THEN -1 ELSE 1
      g == GCD(Abs(n), Abs(d))
  IN <<(sgn * n) \div g, (sgn * d) \div g>>

RInt(n) == <<n, 1>>

\* The operations divide by common factors before they multiply, so that
\* intermediate products stay within TLC's integers.
RAdd(a, b) ==
  LET g == GCD(a[2], b[2])
  IN Rat(a[1] * (b[2] \div g) + b[1] * (a[2] \div g), (a[2] \div g) * b[2])
RNeg(a) == <<-a[1], a[2]>>
RSub(a, b) == RAdd(a, RNeg(b))
RMul(a, b) ==
  LET g1 == GCD(Abs(a[1]), b[2])
      g2 == GCD(Abs(b[1]), a[2])
  IN Rat((a[1] \div g1) * (b[1] \div g2), (a[2] \div g2) * (b[2] \div g1))
RDiv(a, b) == RMul(a, IF b[1] < 0 THEN <<-b[2], -b[1]>> ELSE <<b[2], b[1]>>)
RLt(a, b) ==
  LET g == GCD(a[2], b[2]) IN a[1] * (b[2] \div g) < b[1] * (a[2] \div g)
RLe(a, b) ==
  LET g == GCD(a[2], b[2]) IN a[1] * (b[2] \div g) <= b[1] * (a[2] \div g)
RMin(a, b) == IF RLt(b, a) THEN b ELSE a
RMax(a, b) == IF RLt(a, b) THEN b ELSE a

\* Python's int(x): truncation towards zero.
PyInt(a) == IF a[1] >= 0 THEN a[1] \div a[2] ELSE -((-a[1]) \div a[2])

\* Python 2's round(x): to the nearest integer, halves away from zero.
PyRound(a) ==
  IF a[1] >= 0 THEN (2 * a[1] + a[2]) \div (2 * a[2])
  ELSE -((2 * (-a[1]) + a[2]) \div (2 * a[2]))

\* max of a non-empty set of rationals
RMaxOf(S) == CHOOSE x \in S : \A y \in S : RLe(y, x)

RECURSIVE SumOver(_, _)
SumOver(f, S) ==
  IF S = {} THEN 0
  ELSE LET x == CHOOSE y \in S : TRUE IN f[x] + SumOver(f, S \ {x})

RECURSIVE RSumOver(_, _)
RSumOver(f, S) ==
  IF S = {} THEN RInt(0)
  ELSE LET x == CHOOSE y \in S : TRUE IN RAdd(f[x], RSumOver(f, S \ {x}))

\* numpy.unique / sort(): the elements of a set of integers in ascending order
RECURSIVE SortedSeq(_)
SortedSeq(S) ==
  IF S = {} THEN <<>>
  ELSE LET m == CHOOSE x \in S : \A y \in S : x <= y
       IN <<m>> \o SortedSeq(S \ {m})

SeqToSet(q) == {q[i] : i \in 1..Len(q)}

---------------------------------------------------------------------------
(* Topology: row-major index <-> coordinates, neighbourhoods.              *)

\* the product of dims[i..]
RECURSIVE DimProd(_, _)
DimProd(dims, i) == IF i > Len(dims) THEN 1 ELSE dims[i] * DimProd(dims, i + 1)

RECURSIVE SeqMax(_)
SeqMax(q) ==
  IF Len(q) = 1 THEN q[1]
  ELSE LET m == SeqMax(Tail(q)) IN IF q[1] > m THEN q[1] ELSE m

unravel_index(index, dims) ==
  [i \in 1..Len(dims) |-> (index \div DimProd(dims, i + 1)) % dims[i]]

RECURSIVE ravelFrom(_, _, _)
ravelFrom(coords, dims, i) ==
  IF i > Len(dims) THEN 0
  ELSE coords[i] * DimProd(dims, i + 1) + ravelFrom(coords, dims, i + 1)

ravel_multi_index(coords, dims) == ravelFrom(coords, dims, 1)

\* itertools.product of a sequence of sequences, in its (lexicographic) order
RECURSIVE product(_)
product(ranges) ==
  IF ranges = <<>> THEN << <<>> >>
  ELSE LET head == Head(ranges)
           rest == product(Tail(ranges))
       IN [k \in 1..(Len(head) * Len(rest)) |->
             <<head[((k - 1) \div Len(rest)) + 1]>> \o rest[((k - 1) % Len(rest)) + 1]]

\* list.remove(x): drops the first occurrence of x
remove(q, x) ==
  LET idx == CHOOSE i \in 1..Len(q) : q[i] = x /\ \A j \in 1..(i - 1) : q[j] # x
  IN SubSeq(q, 1, idx - 1) \o SubSeq(q, idx + 1, Len(q))

\* One dimension's range without numpy.unique: with wrapping an index comes
\* once for every time the range passes it.
curRangeRepeated(coord, dim, radius, wrapAround) ==
  IF wrapAround
  THEN [k \in 1..(2 * radius + 1) |-> (coord - radius + k - 1) % dim]
  ELSE SortedSeq({k \in (coord - radius)..(coord + radius) : k >= 0 /\ k < dim})

\* one dimension's range of _getNeighborsND, after numpy.unique
curRange(coord, dim, radius, wrapAround) ==
  IF wrapAround
  THEN SortedSeq({k % dim : k \in (coord - radius)..(coord + radius)})
  ELSE SortedSeq({k \in (coord - radius)..(coord + radius) : k >= 0 /\ k < dim})

getNeighborsND(columnIndex, dimensions, radius, wrapAround) ==
  LET columnCoords == unravel_index(columnIndex, dimensions)
      rangeND == [i \in 1..Len(dimensions) |->
                    curRange(columnCoords[i], dimensions[i], radius, wrapAround)]
      coordsList == product(rangeND)
      neighbors == [k \in 1..Len(coordsList) |->
                      ravel_multi_index(coordsList[k], dimensions)]
  IN remove(neighbors, columnIndex)

---------------------------------------------------------------------------
(* The random source (nupic.bindings.math.Random, outside this file): a    *)
(* generator whose whole stream is fixed by its seed.  Its state is a      *)
(* number in 0..65535 stepped by a full-period congruence; a real draw is   *)
(* the top four bits of the state, a multiple of 1/16 in [0, 1).           *)

NupicRandom(seed) == seed % 65536

RandomStep(x) == (25173 * x + 13849) % 65536

\* getReal64(): [random |-> the new generator state, value |-> the draw]
getReal64(x) ==
  LET y == RandomStep(x) IN [random |-> y, value |-> Rat(y \div 4096, 16)]

\* getUInt32(n): a draw in 0..n-1
getUInt32(x, n) ==
  LET y == RandomStep(x) IN [random |-> y, value |-> ((y \div 4096) * n) \div 16]

\* Random.sample(population, sample): selection sampling, keeps the order
RECURSIVE sampleFrom(_, _, _, _, _)
sampleFrom(x, population, nSample, i, chosen) ==
  IF Len(chosen) = nSample \/ i > Len(population)
  THEN [random |-> x, value |-> chosen]
  ELSE LET d == getUInt32(x, Len(population) - (i - 1))
       IN IF d.value < nSample - Len(chosen)
          THEN sampleFrom(d.random, population, nSample, i + 1,
                          Append(chosen, population[i]))
          ELSE sampleFrom(d.random, population, nSample, i + 1, chosen)

sample(x, population, nSample) == sampleFrom(x, population, nSample, 1, <<>>)

---------------------------------------------------------------------------
(* The synapse store: the guarded permanence update.                       *)

Columns(s) == 0..(s.numColumns - 1)
Inputs(s) == 0..(s.numInputs - 1)

\* self._synPermMax = 1.0, in permanence units: a permanence p of the source
\* is the integer p * synPermMax here
synPermMax == 20

\* A clip that bounds the permanences from below only.
clipFromBelow(s, perm) ==
  [j \in DOMAIN perm |-> IF perm[j] < s.synPermMin THEN s.synPermMin ELSE perm[j]]

\* numpy.clip(perm, synPermMin, synPermMax)
clip(s, perm) ==
  [j \in DOMAIN perm |->
     IF perm[j] < s.synPermMin THEN s.synPermMin
     ELSE IF perm[j] > s.synPermMax THEN s.synPermMax
     ELSE perm[j]]

\* perm[mask] += amount
addOnMask(perm, mask, amount) ==
  [j \in DOMAIN perm |-> IF j \in mask THEN perm[j] + amount ELSE perm[j]]

\* A raise that tests the threshold once instead of looping.
raiseOnce(s, perm, mask) ==
  IF Cardinality({j \in DOMAIN perm : perm[j] > s.synPermConnected})
       >= s.stimulusThreshold
  THEN perm
  ELSE [j \in DOMAIN perm |->
          IF j \in mask THEN perm[j] + s.synPermBelowStimulusInc ELSE perm[j]]

\* the while-loop of _raisePermanenceToThreshold
RECURSIVE raiseLoop(_, _, _)
raiseLoop(s, perm, mask) ==
  LET numConnected == Cardinality({j \in DOMAIN perm : perm[j] > s.synPermConnected})
  IN IF numConnected >= s.stimulusThreshold
     THEN perm
     ELSE raiseLoop(s, addOnMask(perm, mask, s.synPermBelowStimulusInc), mask)

\* [perm |-> the raised vector, exc |-> whether the method raised]
raisePermanenceToThreshold(s, perm, mask) ==
  IF Cardinality(mask) < s.stimulusThreshold
  THEN [perm |-> perm, exc |-> TRUE]
  ELSE [perm |-> raiseLoop(s, clip(s, perm), mask), exc |-> FALSE]

\* perm[perm < synPermTrimThreshold] = 0
trim(s, perm) ==
  [j \in DOMAIN perm |-> IF perm[j] < s.synPermTrimThreshold THEN 0 ELSE perm[j]]

\* A guarded update whose connected row holds the permanences strictly above
\* synPermConnected.
updatePermanencesStrictlyAbove(s, perm, index, raisePerm) ==
  LET maskPotential == s.potentialPools[index]
      raised == IF raisePerm
                THEN raisePermanenceToThreshold(s, perm, maskPotential)
                ELSE [perm |-> perm, exc |-> FALSE]
      stored == clip(s, trim(s, raised.perm))
      newConnected == {j \in DOMAIN stored : stored[j] > s.synPermConnected}
  IN IF raised.exc
     THEN [s |-> s, exc |-> TRUE]
     ELSE [s |-> [s EXCEPT !.permanences[index] = stored,
                           !.connectedSynapses[index] = newConnected,
                           !.connectedCounts[index] = Cardinality(newConnected)],
           exc |-> FALSE]

\* [s |-> the instance afterwards, exc |-> whether the method raised]
updatePermanencesForColumn(s, perm, index, raisePerm) ==
  LET maskPotential == s.potentialPools[index]
      raised == IF raisePerm
                THEN raisePermanenceToThreshold(s, perm, maskPotential)
                ELSE [perm |-> perm, exc |-> FALSE]
      stored == clip(s, trim(s, raised.perm))
      newConnected == {j \in DOMAIN stored : stored[j] >= s.synPermConnected}
  IN IF raised.exc
     THEN [s |-> s, exc |-> TRUE]
     ELSE [s |-> [s EXCEPT !.permanences[index] = stored,
                           !.connectedSynapses[index] = newConnected,
                           !.connectedCounts[index] = Cardinality(newConnected)],
           exc |-> FALSE]

---------------------------------------------------------------------------
(* The initializer.                                                        *)

\* int(p*100000)/100000.0 on the permanence grid: the whole units of p
truncate(p) == PyInt(p)

\* _initPermConnected reads self.synPermMax, an attribute the class never
\* sets (__init__ sets self._synPermMax): the read raises AttributeError
\* before a number is drawn.
initPermConnected(s, x) == [random |-> x, value |-> 0, exc |-> TRUE]

initPermNonConnected(s, x) ==
  LET d == getReal64(x)
      p == RMul(RInt(s.synPermConnected), d.value)
  IN [random |-> d.random, value |-> truncate(p), exc |-> FALSE]

\* the permanence of one potential synapse, given the draw d that decides
\* between a connected and a non-connected one
initPermValue(s, connectedPct, d) ==
  IF RLe(d.value, connectedPct)
  THEN initPermConnected(s, d.random)
  ELSE initPermNonConnected(s, d.random)

\* perm[i] = v
storePerm(acc, i, v) ==
  [random |-> v.random, perm |-> [acc.perm EXCEPT ![i] = v.value], exc |-> v.exc]

\* the loop of _initPermanence from input i on; acc = [random, perm, exc]
RECURSIVE initPermanenceFrom(_, _, _, _, _)
initPermanenceFrom(s, potential, connectedPct, i, acc) ==
  IF i = s.numInputs \/ acc.exc THEN acc
  ELSE IF i \notin potential
  THEN initPermanenceFrom(s, potential, connectedPct, i + 1, acc)
  ELSE initPermanenceFrom(s, potential, connectedPct, i + 1,
         storePerm(acc, i, initPermValue(s, connectedPct, getReal64(acc.random))))

\* perm[perm < synPermTrimThreshold] = 0 at the end of _initPermanence
trimDrawn(s, drawn) ==
  [random |-> drawn.random, perm |-> trim(s, drawn.perm), exc |-> drawn.exc]

\* [random |-> generator state afterwards, perm |-> the dense vector,
\*  exc |-> whether the method raised]
initPermanence(s, potential, connectedPct) ==
  trimDrawn(s, initPermanenceFrom(s, potential, connectedPct, 0,
                 [random |-> s.random, perm |-> [j \in Inputs(s) |-> 0],
                  exc |-> FALSE]))

mapColumn(s, index) ==
  LET columnCoords == unravel_index(index, s.columnDimensions)
      inputCoords ==
        [d \in 1..Len(s.inputDimensions) |->
           PyInt(RAdd(RMul(RInt(s.inputDimensions[d]),
                           Rat(columnCoords[d], s.columnDimensions[d])),
                      RMul(Rat(1, 2),
                           Rat(s.inputDimensions[d], s.columnDimensions[d]))))]
  IN ravel_multi_index(inputCoords, s.inputDimensions)

\* the inputs within potentialRadius of center, center included, ascending
potentialIndices(s, center, wrapAround) ==
  SortedSeq(SeqToSet(Append(getNeighborsND(center, s.inputDimensions,
                                           s.potentialRadius, wrapAround),
                            center)))

\* the sample of potentialPct of the indices
samplePotential(s, indices) ==
  LET drawn == sample(s.random, indices,
                      PyRound(RMul(RInt(Len(indices)), s.potentialPct)))
  IN [random |-> drawn.random, potential |-> SeqToSet(drawn.value)]

\* [random |-> generator state afterwards, potential |-> the selected inputs]
mapPotential(s, index, wrapAround) ==
  samplePotential(s, potentialIndices(s, mapColumn(s, index), wrapAround))

---------------------------------------------------------------------------
(* Homeostasis: inhibition radius, duty cycles, weak columns, boosting.    *)

avgColumnsPerInput(s) ==
  LET numDim == IF Len(s.columnDimensions) > Len(s.inputDimensions)
                THEN Len(s.columnDimensions) ELSE Len(s.inputDimensions)
      colDim == [d \in 1..numDim |->
                   IF d <= Len(s.columnDimensions) THEN s.columnDimensions[d] ELSE 1]
      inputDim == [d \in 1..numDim |->
                     IF d <= Len(s.inputDimensions) THEN s.inputDimensions[d] ELSE 1]
      columnsPerInput == [d \in 1..numDim |-> Rat(colDim[d], inputDim[d])]
  IN RDiv(RSumOver(columnsPerInput, 1..numDim), RInt(numDim))

avgConnectedSpanForColumnND(s, index) ==
  LET dimensions == s.inputDimensions
      connected == s.connectedSynapses[index]
      coordsOf == [i \in connected |-> unravel_index(i, dimensions)]
      maxCoord == [d \in 1..Len(dimensions) |->
                     CHOOSE m \in {coordsOf[i][d] : i \in connected} :
                       \A i \in connected : coordsOf[i][d] <= m]
      minCoord == [d \in 1..Len(dimensions) |->
                     CHOOSE m \in {coordsOf[i][d] : i \in connected} :
                       \A i \in connected : coordsOf[i][d] >= m]
  IN IF connected = {} THEN RInt(0)
     ELSE Rat(SumOver([d \in 1..Len(dimensions) |-> maxCoord[d] - minCoord[d] + 1],
                      1..Len(dimensions)),
              Len(dimensions))

updateInhibitionRadius(s) ==
  IF s.globalInhibition
  THEN [s EXCEPT !.inhibitionRadius = SeqMax(s.columnDimensions)]
  ELSE LET avgConnectedSpan ==
             RDiv(RSumOver([i \in Columns(s) |-> avgConnectedSpanForColumnND(s, i)],
                           Columns(s)),
                  RInt(s.numColumns))
           columnsPerInput == avgColumnsPerInput(s)
           diameter == RMul(avgConnectedSpan, columnsPerInput)
           radius == RMax(RInt(1), RDiv(RSub(diameter, RInt(1)), RInt(2)))
       IN [s EXCEPT !.inhibitionRadius = PyRound(radius)]

updateDutyCyclesHelper(dutyCycles, newInput, period) ==
  [c \in DOMAIN dutyCycles |->
     RDiv(RAdd(RMul(dutyCycles[c], RInt(period - 1)), RInt(newInput[c])),
          RInt(period))]

\* A duty cycle update that always averages over dutyCyclePeriod, the first
\* iterations included.
updateDutyCyclesFullPeriod(s, overlaps, activeColumns) ==
  LET overlapArray == [c \in Columns(s) |-> IF RLt(RInt(0), overlaps[c]) THEN 1 ELSE 0]
      activeArr == [c \in Columns(s) |-> IF c \in activeColumns THEN 1 ELSE 0]
  IN [s EXCEPT
        !.overlapDutyCycles =
           updateDutyCyclesHelper(s.overlapDutyCycles, overlapArray,
                                  s.dutyCyclePeriod),
        !.activeDutyCycles =
           updateDutyCyclesHelper(s.activeDutyCycles, activeArr,
                                  s.dutyCyclePeriod)]

updateDutyCycles(s, overlaps, activeColumns) ==
  LET overlapArray == [c \in Columns(s) |-> IF RLt(RInt(0), overlaps[c]) THEN 1 ELSE 0]
      activeArr == [c \in Columns(s) |-> IF c \in activeColumns THEN 1 ELSE 0]
      period == IF s.dutyCyclePeriod > s.iterationNum
                THEN s.iterationNum ELSE s.dutyCyclePeriod
  IN [s EXCEPT
        !.overlapDutyCycles =
           updateDutyCyclesHelper(s.overlapDutyCycles, overlapArray, period),
        !.activeDutyCycles =
           updateDutyCyclesHelper(s.activeDutyCycles, activeArr, period)]

updateMinDutyCyclesGlobal(s) ==
  [s EXCEPT
     !.minOverlapDutyCycles =
        [c \in Columns(s) |->
           RMul(s.minPctOverlapDutyCycles,
                RMaxOf({s.overlapDutyCycles[k] : k \in Columns(s)}))],
     !.minActiveDutyCycles =
        [c \in Columns(s) |->
           RMul(s.minPctActiveDutyCycles,
                RMaxOf({s.activeDutyCycles[k] : k \in Columns(s)}))]]

\* A local update whose neighbourhoods wrap around the ends of the region.
updateMinDutyCyclesLocalWrapped(s) ==
  LET maskNeighbors(i) ==
        {i} \cup SeqToSet(getNeighborsND(i, s.columnDimensions,
                                         s.inhibitionRadius, TRUE))
  IN [s EXCEPT
        !.minOverlapDutyCycles =
           [i \in Columns(s) |->
              RMul(RMaxOf({s.overlapDutyCycles[k] : k \in maskNeighbors(i)}),
                   s.minPctOverlapDutyCycles)],
        !.minActiveDutyCycles =
           [i \in Columns(s) |->
              RMul(RMaxOf({s.activeDutyCycles[k] : k \in maskNeighbors(i)}),
                   s.minPctActiveDutyCycles)]]

updateMinDutyCyclesLocal(s) ==
  LET maskNeighbors(i) ==
        {i} \cup SeqToSet(getNeighborsND(i, s.columnDimensions,
                                         s.inhibitionRadius, FALSE))
  IN [s EXCEPT
        !.minOverlapDutyCycles =
           [i \in Columns(s) |->
              RMul(RMaxOf({s.overlapDutyCycles[k] : k \in maskNeighbors(i)}),
                   s.minPctOverlapDutyCycles)],
        !.minActiveDutyCycles =
           [i \in Columns(s) |->
              RMul(RMaxOf({s.activeDutyCycles[k] : k \in maskNeighbors(i)}),
                   s.minPctActiveDutyCycles)]]

updateMinDutyCycles(s) ==
  IF s.globalInhibition \/ s.inhibitionRadius > s.numInputs
  THEN updateMinDutyCyclesGlobal(s)
  ELSE updateMinDutyCyclesLocal(s)

\* A selection of weak columns that takes a column whose overlap duty cycle
\* equals its minOverlapDutyCycles as weak too.
weakColumnsOfOrEqual(s) ==
  {c \in Columns(s) : RLe(s.overlapDutyCycles[c], s.minOverlapDutyCycles[c])}

\* numpy.where(overlapDutyCycles < minOverlapDutyCycles)
weakColumnsOf(s) ==
  {c \in Columns(s) : RLt(s.overlapDutyCycles[c], s.minOverlapDutyCycles[c])}

\* A bump whose guarded update raises the row to stimulusThreshold connected
\* synapses.
RECURSIVE bumpUpFromRaising(_, _)
bumpUpFromRaising(s, weakColumns) ==
  IF weakColumns = <<>> THEN s
  ELSE LET i == Head(weakColumns)
           perm == addOnMask(s.permanences[i], s.potentialPools[i],
                             s.synPermBelowStimulusInc)
       IN bumpUpFromRaising(updatePermanencesForColumn(s, perm, i, TRUE).s,
                            Tail(weakColumns))

RECURSIVE bumpUpFrom(_, _)
bumpUpFrom(s, weakColumns) ==
  IF weakColumns = <<>> THEN s
  ELSE LET i == Head(weakColumns)
           perm == addOnMask(s.permanences[i], s.potentialPools[i],
                             s.synPermBelowStimulusInc)
       IN bumpUpFrom(updatePermanencesForColumn(s, perm, i, FALSE).s,
                     Tail(weakColumns))

bumpUpWeakColumns(s) == bumpUpFrom(s, SortedSeq(weakColumnsOf(s)))

\* A boost update that keeps the line below 1 for the columns whose active
\* duty cycle is above minActiveDutyCycles.
updateBoostFactorsLinearOnly(s) ==
  [s EXCEPT !.boostFactors =
     [c \in Columns(s) |->
        IF RLt(RInt(0), s.minActiveDutyCycles[c])
        THEN RAdd(RMul(RDiv(RSub(RInt(1), s.maxBoost), s.minActiveDutyCycles[c]),
                       s.activeDutyCycles[c]),
                  s.maxBoost)
        ELSE s.boostFactors[c]]]

updateBoostFactors(s) ==
  LET linear == [c \in Columns(s) |->
                   IF RLt(RInt(0), s.minActiveDutyCycles[c])
                   THEN RAdd(RMul(RDiv(RSub(RInt(1), s.maxBoost),
                                       s.minActiveDutyCycles[c]),
                                  s.activeDutyCycles[c]),
                             s.maxBoost)
                   ELSE s.boostFactors[c]]
  IN [s EXCEPT !.boostFactors =
        [c \in Columns(s) |->
           IF RLt(s.minActiveDutyCycles[c], s.activeDutyCycles[c])
           THEN RInt(1) ELSE linear[c]]]

\* A bookkeeping that counts every call as a learning call.
updateBookeepingVarsBoth(s, learn) ==
  [s EXCEPT !.iterationNum = s.iterationNum + 1,
            !.iterationLearnNum = s.iterationLearnNum + 1]

updateBookeepingVars(s, learn) ==
  [s EXCEPT !.iterationNum = s.iterationNum + 1,
            !.iterationLearnNum = IF learn THEN s.iterationLearnNum + 1
                                  ELSE s.iterationLearnNum]

\* An update round told by the count of learning calls.
isUpdateRoundOfLearning(s) == (s.iterationLearnNum % s.updatePeriod) = 0

isUpdateRound(s) == (s.iterationNum % s.updatePeriod) = 0
---------------------------------------------------------------------------
(* Overlap, inhibition and learning.                                       *)

\* the overlap of every column with the input, as a rational
calculateOverlap(s, inputVector) ==
  [c \in Columns(s) |->
     LET n == SumOver([j \in s.connectedSynapses[c] |-> inputVector[j + 1]],
                      s.connectedSynapses[c])
     IN IF n < s.stimulusThreshold THEN RInt(0) ELSE RInt(n)]

\* the density _inhibitColumns works with
inhibitionDensity(s) ==
  IF RLt(RInt(0), s.localAreaDensity)
  THEN s.localAreaDensity
  ELSE LET power == (2 * s.inhibitionRadius + 1) ^ Len(s.columnDimensions)
           inhibitionArea == IF s.numColumns < power THEN s.numColumns ELSE power
       IN RMin(Rat(s.numActiveColumnsPerInhArea, inhibitionArea), Rat(1, 2))

\* A descending sort that puts the higher index first among equal keys (an
\* ascending sort, reversed).
RECURSIVE sortedThenReversed(_, _, _)
sortedThenReversed(key, n, k) ==
  IF k = 0 THEN <<>>
  ELSE LET before == sortedThenReversed(key, n, k - 1)
           x == k - 1
           pos == Cardinality({i \in 1..Len(before) : RLt(key[x], key[before[i]])})
       IN SubSeq(before, 1, pos) \o <<x>> \o SubSeq(before, pos + 1, Len(before))

\* sorted(range(n), key=..., reverse=True): a stable sort, so that of two
\* columns with equal keys the lower index stays first
RECURSIVE sortedReverse(_, _, _)
sortedReverse(key, n, k) ==
  IF k = 0 THEN <<>>
  ELSE LET before == sortedReverse(key, n, k - 1)
           x == k - 1
           pos == Cardinality({i \in 1..Len(before) : RLe(key[x], key[before[i]])})
       IN SubSeq(before, 1, pos) \o <<x>> \o SubSeq(before, pos + 1, Len(before))

inhibitColumnsGlobal(s, overlaps, density) ==
  LET numActive == PyInt(RMul(density, RInt(s.numColumns)))
      order == sortedReverse(overlaps, s.numColumns, s.numColumns)
      winners == SubSeq(order, 1, numActive)
  IN SeqToSet(winners)

\* A local loop that leaves the overlap of a winner as it was.
RECURSIVE inhibitLocalKeepingOverlaps(_, _, _, _, _)
inhibitLocalKeepingOverlaps(s, density, addToWinners, i, acc) ==
  IF i = s.numColumns THEN acc.activeColumns
  ELSE LET maskNeighbors == getNeighborsND(i, s.columnDimensions,
                                           s.inhibitionRadius, FALSE)
           numActive == PyInt(RAdd(Rat(1, 2),
                                   RMul(density, RInt(Len(maskNeighbors) + 1))))
           numBigger == Cardinality({k \in 1..Len(maskNeighbors) :
                           RLt(acc.overlaps[i], acc.overlaps[maskNeighbors[k]])})
       IN IF numBigger < numActive
          THEN inhibitLocalKeepingOverlaps(s, density, addToWinners, i + 1,
                 [overlaps |-> acc.overlaps,
                  activeColumns |-> acc.activeColumns \cup {i}])
          ELSE inhibitLocalKeepingOverlaps(s, density, addToWinners, i + 1, acc)

\* the loop of _inhibitColumnsLocal from column i on;
\* acc = [overlaps, activeColumns]
RECURSIVE inhibitLocalFrom(_, _, _, _, _)
inhibitLocalFrom(s, density, addToWinners, i, acc) ==
  IF i = s.numColumns THEN acc.activeColumns
  ELSE LET maskNeighbors == getNeighborsND(i, s.columnDimensions,
                                           s.inhibitionRadius, FALSE)
           numActive == PyInt(RAdd(Rat(1, 2),
                                   RMul(density, RInt(Len(maskNeighbors) + 1))))
           numBigger == Cardinality({k \in 1..Len(maskNeighbors) :
                           RLt(acc.overlaps[i], acc.overlaps[maskNeighbors[k]])})
       IN IF numBigger < numActive
          THEN inhibitLocalFrom(s, density, addToWinners, i + 1,
                 [overlaps |-> [acc.overlaps EXCEPT ![i] = RAdd(@, addToWinners)],
                  activeColumns |-> acc.activeColumns \cup {i}])
          ELSE inhibitLocalFrom(s, density, addToWinners, i + 1, acc)

inhibitColumnsLocal(s, overlaps, density) ==
  LET addToWinners == RDiv(RMaxOf({overlaps[c] : c \in Columns(s)}), RInt(1000))
  IN inhibitLocalFrom(s, density, addToWinners, 0,
                      [overlaps |-> overlaps, activeColumns |-> {}])

\* whether _inhibitColumns takes the global branch
inhibitsGlobally(s) ==
  s.globalInhibition \/ s.inhibitionRadius > SeqMax(s.columnDimensions)

\* overlaps += tieBreaker
tieBroken(s, overlaps) ==
  [c \in Columns(s) |-> RAdd(overlaps[c], s.tieBreaker[c])]

inhibitColumns(s, overlaps) ==
  IF inhibitsGlobally(s)
  THEN inhibitColumnsGlobal(s, tieBroken(s, overlaps), inhibitionDensity(s))
  ELSE inhibitColumnsLocal(s, tieBroken(s, overlaps), inhibitionDensity(s))

\* permChanges of _adaptSynapses
permChangesOf(s, inputVector) ==
  [j \in Inputs(s) |->
     IF inputVector[j + 1] > 0 THEN s.synPermActiveInc ELSE -s.synPermInactiveDec]

\* An adaptation that adds permChanges to every entry of the row, those
\* outside the potential pool included.
RECURSIVE adaptAllInputsFrom(_, _, _)
adaptAllInputsFrom(s, permChanges, activeColumns) ==
  IF activeColumns = <<>> THEN [s |-> s, exc |-> FALSE]
  ELSE LET i == Head(activeColumns)
           perm == [j \in Inputs(s) |-> s.permanences[i][j] + permChanges[j]]
           up == updatePermanencesForColumn(s, perm, i, TRUE)
       IN IF up.exc THEN up
          ELSE adaptAllInputsFrom(up.s, permChanges, Tail(activeColumns))

\* the loop of _adaptSynapses over the remaining active columns
RECURSIVE adaptFrom(_, _, _)
adaptFrom(s, permChanges, activeColumns) ==
  IF activeColumns = <<>> THEN [s |-> s, exc |-> FALSE]
  ELSE LET i == Head(activeColumns)
           perm == [j \in Inputs(s) |->
                      IF j \in s.potentialPools[i]
                      THEN s.permanences[i][j] + permChanges[j]
                      ELSE s.permanences[i][j]]
           up == updatePermanencesForColumn(s, perm, i, TRUE)
       IN IF up.exc THEN up ELSE adaptFrom(up.s, permChanges, Tail(activeColumns))

adaptSynapses(s, inputVector, activeColumns) ==
  adaptFrom(s, permChangesOf(s, inputVector), SortedSeq(activeColumns))

\* A strip that removes the columns that have been active and keeps those
\* that never were.
stripLearnedColumns(s, activeColumns) ==
  LET learned == {c \in Columns(s) : s.activeDutyCycles[c] # RInt(0)}
  IN activeColumns \ learned

stripUnlearnedColumns(s, activeColumns) ==
  LET neverLearned == {c \in Columns(s) : s.activeDutyCycles[c] = RInt(0)}
  IN activeColumns \ neverLearned
---------------------------------------------------------------------------
(* The step controller.                                                    *)

\* the trace of a call that is not a completed compute
NoTrace ==
  [overlaps |-> <<>>, scores |-> <<>>, density |-> RInt(0), global |-> FALSE,
   activeColumns |-> {}, raisedCounts |-> <<>>, weakColumns |-> {},
   updateRound |-> FALSE]

\* activeArray.fill(0); activeArray[activeColumns] = 1
fillActive(s, activeColumns) ==
  [c \in Columns(s) |-> IF c \in activeColumns THEN 1 ELSE 0]

\* The local values of a compute call in progress: f.s is the instance,
\* the other fields are the arguments, the locals of the method and the
\* values the trace keeps.
computeFrame(s, inputVector, learn) ==
  [s |-> s, inputVector |-> inputVector, learn |-> learn, exc |-> FALSE,
   overlaps |-> <<>>, boostedOverlaps |-> <<>>, activeColumns |-> {},
   scores |-> <<>>, density |-> RInt(0), global |-> FALSE,
   raisedCounts |-> <<>>, weakColumns |-> {}, updateRound |-> FALSE]

\* A compute that applies the boost factors whether or not it learns.
withOverlapsAlwaysBoosted(f, overlaps) ==
  [f EXCEPT !.overlaps = overlaps,
            !.boostedOverlaps =
               [c \in Columns(f.s) |-> RMul(f.s.boostFactors[c], overlaps[c])]]

\* overlaps = self._calculateOverlap(inputVector)
withOverlaps(f, overlaps) ==
  [f EXCEPT !.overlaps = overlaps,
            !.boostedOverlaps =
               IF f.learn
               THEN [c \in Columns(f.s) |-> RMul(f.s.boostFactors[c], overlaps[c])]
               ELSE overlaps]

computeOverlaps(f) == withOverlaps(f, calculateOverlap(f.s, f.inputVector))

\* activeColumns = self._inhibitColumns(boostedOverlaps)
computeInhibition(f) ==
  [f EXCEPT !.activeColumns = inhibitColumns(f.s, f.boostedOverlaps),
            !.scores = tieBroken(f.s, f.boostedOverlaps),
            !.density = inhibitionDensity(f.s),
            !.global = inhibitsGlobally(f.s)]

\* self._adaptSynapses(inputVector, activeColumns)
withAdapted(f, adapted) ==
  [f EXCEPT !.s = adapted.s, !.exc = adapted.exc,
            !.raisedCounts =
               [c \in f.activeColumns |-> adapted.s.connectedCounts[c]]]

learnAdapt(f) ==
  withAdapted(f, adaptSynapses(f.s, f.inputVector, f.activeColumns))

\* self._updateDutyCycles(overlaps, activeColumns)
learnDutyCycles(f) ==
  [f EXCEPT !.s = updateDutyCycles(f.s, f.overlaps, f.activeColumns)]

\* self._bumpUpWeakColumns()
learnBump(f) ==
  [f EXCEPT !.s = bumpUpWeakColumns(f.s), !.weakColumns = weakColumnsOf(f.s)]

\* self._updateBoostFactors()
learnBoost(f) == [f EXCEPT !.s = updateBoostFactors(f.s)]

\* A learning step that refreshes the inhibition radius and the min duty
\* cycles in every call.
learnUpdateRoundAlways(f) ==
  [f EXCEPT !.s = updateMinDutyCycles(updateInhibitionRadius(f.s)),
            !.updateRound = TRUE]

\* if self._isUpdateRound(): radius, then min duty cycles
learnUpdateRound(f) ==
  IF isUpdateRound(f.s)
  THEN [f EXCEPT !.s = updateMinDutyCycles(updateInhibitionRadius(f.s)),
                 !.updateRound = TRUE]
  ELSE f

\* The statements after the adaptation with the update round moved ahead of
\* the bump of the weak columns.
learnRestRoundFirst(f) ==
  IF f.exc THEN f
  ELSE learnBoost(learnBump(learnUpdateRound(learnDutyCycles(f))))

\* the statements of compute after the adaptation, skipped when it raised
learnRest(f) ==
  IF f.exc THEN f
  ELSE learnUpdateRound(learnBoost(learnBump(learnDutyCycles(f))))

\* if learn: ...
computeLearning(f) == IF f.learn THEN learnRest(learnAdapt(f)) ELSE f

\* the trace a completed compute call leaves
traceOf(f) ==
  [overlaps |-> f.overlaps, scores |-> f.scores, density |-> f.density,
   global |-> f.global, activeColumns |-> f.activeColumns,
   raisedCounts |-> f.raisedCounts, weakColumns |-> f.weakColumns,
   updateRound |-> f.updateRound]

\* the end of compute: the active columns written to the caller's array
computeOutput(f, activeArr, stripNeverLearned) ==
  IF f.exc
  THEN [s |-> f.s, activeArray |-> activeArr, exc |-> "Exception",
        trace |-> NoTrace]
  ELSE [s |-> f.s,
        activeArray |->
          fillActive(f.s, IF ~f.learn /\ stripNeverLearned
                          THEN stripUnlearnedColumns(f.s, f.activeColumns)
                          ELSE f.activeColumns),
        exc |-> "", trace |-> traceOf(f)]

\* compute once the input vector has passed its checks
computeChecked(s, inputVector, learn, activeArr, stripNeverLearned) ==
  computeOutput(
    computeLearning(computeInhibition(computeOverlaps(
      computeFrame(updateBookeepingVars(s, learn), inputVector, learn)))),
    activeArr, stripNeverLearned)

\* A compute that counts the call before it checks the input vector.
computeCountingFirst(s, inputVector, learn, activeArr, stripNeverLearned) ==
  IF Len(inputVector) # s.numInputs
  THEN [s |-> updateBookeepingVars(s, learn), activeArray |-> activeArr,
        exc |-> "ValueError", trace |-> NoTrace]
  ELSE computeChecked(s, inputVector, learn, activeArr, stripNeverLearned)

\* compute(inputVector, learn, activeArray, stripNeverLearned):
\* [s |-> the instance afterwards, activeArray |-> the output array afterwards,
\*  exc |-> the exception raised ("" for none), trace |-> intermediate values]
compute(s, inputVector, learn, activeArr, stripNeverLearned) ==
  IF Len(inputVector) # s.numInputs
  THEN [s |-> s, activeArray |-> activeArr, exc |-> "ValueError", trace |-> NoTrace]
  ELSE computeChecked(s, inputVector, learn, activeArr, stripNeverLearned)

---------------------------------------------------------------------------
(* Construction.                                                           *)

\* A setRandomSeed that never hands the seed to the generator.
setRandomSeedUnseeded(seed, entropy) == NupicRandom(entropy)

\* setRandomSeed: a seed other than -1 fixes the generator, -1 leaves it to
\* the generator's own entropy
setRandomSeed(seed, entropy) ==
  IF seed # -1 THEN NupicRandom(seed) ELSE NupicRandom(entropy)

\* the assertions of __init__
initArgsValid(a) ==
  /\ DimProd(a.columnDimensions, 1) > 0
  /\ DimProd(a.inputDimensions, 1) > 0
  /\ Len(a.inputDimensions) = Len(a.columnDimensions)
  /\ \/ a.numActiveColumnsPerInhArea > 0
     \/ RLt(RInt(0), a.localAreaDensity) /\ RLe(a.localAreaDensity, Rat(1, 2))
  /\ 2 * a.synPermConnected > a.synPermActiveInc

\* the tie breaker: 0.01 * getReal64() for every column in turn
RECURSIVE drawTieBreaker(_, _, _)
drawTieBreaker(x, n, acc) ==
  IF Len(acc) = n THEN [random |-> x, value |-> acc]
  ELSE LET d == getReal64(x)
       IN drawTieBreaker(d.random, n, Append(acc, RMul(Rat(1, 100), d.value)))

\* potential = self._mapPotential(i, wrapAround); the pool of column i
withPotential(s, i, mp) ==
  [s EXCEPT !.random = mp.random, !.potentialPools[i] = mp.potential]

\* perm = self._initPermanence(potential, connectedPct), then the guarded
\* update of column i with raisePerm=True: [s, exc]
withPermanence(s, i, ip) ==
  IF ip.exc
  THEN [s |-> [s EXCEPT !.random = ip.random], exc |-> TRUE]
  ELSE updatePermanencesForColumn([s EXCEPT !.random = ip.random], ip.perm, i, TRUE)

initColumnPermanence(s, i) ==
  withPermanence(s, i, initPermanence(s, s.potentialPools[i], Rat(1, 2)))

\* the loop of __init__ over the columns from i on: [s, exc]
RECURSIVE initColumnsFrom(_, _)
initColumnsNext(r, i) == IF r.exc THEN r ELSE initColumnsFrom(r.s, i + 1)

initColumnsFrom(s, i) ==
  IF i = s.numColumns THEN [s |-> s, exc |-> FALSE]
  ELSE initColumnsNext(
         initColumnPermanence(
           withPotential(s, i, mapPotential(s, i, s.wrapAround)), i),
         i)

\* the fields of a new instance before the loop over the columns
initFields(a, numColumns, numInputs, tb) ==
  [numInputs |-> numInputs,
   numColumns |-> numColumns,
   columnDimensions |-> a.columnDimensions,
   inputDimensions |-> a.inputDimensions,
   potentialRadius |-> IF a.potentialRadius < numInputs
                       THEN a.potentialRadius ELSE numInputs,
   potentialPct |-> a.potentialPct,
   globalInhibition |-> a.globalInhibition,
   numActiveColumnsPerInhArea |-> a.numActiveColumnsPerInhArea,
   localAreaDensity |-> a.localAreaDensity,
   stimulusThreshold |-> a.stimulusThreshold,
   synPermInactiveDec |-> a.synPermInactiveDec,
   synPermActiveInc |-> a.synPermActiveInc,
   synPermBelowStimulusInc |-> a.synPermConnected \div 10,
   synPermConnected |-> a.synPermConnected,
   minPctOverlapDutyCycles |-> a.minPctOverlapDutyCycles,
   minPctActiveDutyCycles |-> a.minPctActiveDutyCycles,
   dutyCyclePeriod |-> a.dutyCyclePeriod,
   maxBoost |-> a.maxBoost,
   seed |-> a.seed,
   wrapAround |-> a.wrapAround,
   synPermMin |-> 0,
   synPermMax |-> synPermMax,
   synPermTrimThreshold |-> a.synPermActiveInc \div 2,
   updatePeriod |-> 50,
   iterationNum |-> 0,
   iterationLearnNum |-> 0,
   random |-> tb.random,
   potentialPools |-> [c \in 0..(numColumns - 1) |-> {}],
   permanences |-> [c \in 0..(numColumns - 1) |->
                      [j \in 0..(numInputs - 1) |-> 0]],
   tieBreaker |-> [c \in 0..(numColumns - 1) |-> tb.value[c + 1]],
   connectedSynapses |-> [c \in 0..(numColumns - 1) |-> {}],
   connectedCounts |-> [c \in 0..(numColumns - 1) |-> 0],
   overlapDutyCycles |-> [c \in 0..(numColumns - 1) |-> RInt(0)],
   activeDutyCycles |-> [c \in 0..(numColumns - 1) |-> RInt(0)],
   minOverlapDutyCycles |-> [c \in 0..(numColumns - 1) |-> RInt(0)],
   minActiveDutyCycles |-> [c \in 0..(numColumns - 1) |-> RInt(0)],
   boostFactors |-> [c \in 0..(numColumns - 1) |-> RInt(1)],
   inhibitionRadius |-> 0]

\* the end of __init__: self._updateInhibitionRadius()
initRadius(cols) ==
  IF cols.exc THEN cols
  ELSE [s |-> updateInhibitionRadius(cols.s), exc |-> FALSE]

\* __init__(a): [s |-> the instance, exc |-> whether construction raised]
SpatialPooler(a, entropy) ==
  IF ~initArgsValid(a) THEN [s |-> <<>>, exc |-> TRUE]
  ELSE initRadius(initColumnsFrom(
         initFields(a, DimProd(a.columnDimensions, 1),
                    DimProd(a.inputDimensions, 1),
                    drawTieBreaker(setRandomSeed(a.seed, entropy),
                                   DimProd(a.columnDimensions, 1), <<>>)),
         0))
---------------------------------------------------------------------------
(* Serialization.                                                          *)

\* Random.write(proto.random): the generator's state and the seed it was
\* made from (for an instance seeded at construction, that seed)
writeRandom(x, seed) == [state |-> x, seed |-> seed]

\* NupicRandom().read(proto.random)
readRandom(p) == p.state

\* Random.getSeed()
getSeed(p) == p.seed

\* write(proto): the record the instance is written to
write(s) ==
  [random |-> writeRandom(s.random, s.seed),
   numInputs |-> s.numInputs,
   numColumns |-> s.numColumns,
   columnDimensions |-> s.columnDimensions,
   inputDimensions |-> s.inputDimensions,
   potentialRadius |-> s.potentialRadius,
   potentialPct |-> s.potentialPct,
   inhibitionRadius |-> s.inhibitionRadius,
   globalInhibition |-> s.globalInhibition,
   numActiveColumnsPerInhArea |-> s.numActiveColumnsPerInhArea,
   localAreaDensity |-> s.localAreaDensity,
   stimulusThreshold |-> s.stimulusThreshold,
   synPermInactiveDec |-> s.synPermInactiveDec,
   synPermActiveInc |-> s.synPermActiveInc,
   synPermBelowStimulusInc |-> s.synPermBelowStimulusInc,
   synPermConnected |-> s.synPermConnected,
   minPctOverlapDutyCycles |-> s.minPctOverlapDutyCycles,
   minPctActiveDutyCycles |-> s.minPctActiveDutyCycles,
   dutyCyclePeriod |-> s.dutyCyclePeriod,
   maxBoost |-> s.maxBoost,
   wrapAround |-> s.wrapAround,
   synPermMin |-> s.synPermMin,
   synPermMax |-> s.synPermMax,
   synPermTrimThreshold |-> s.synPermTrimThreshold,
   updatePeriod |-> s.updatePeriod,
   iterationNum |-> s.iterationNum,
   iterationLearnNum |-> s.iterationLearnNum,
   potentialPools |-> s.potentialPools,
   permanences |-> s.permanences,
   tieBreaker |-> s.tieBreaker,
   overlapDutyCycles |-> s.overlapDutyCycles,
   activeDutyCycles |-> s.activeDutyCycles,
   minOverlapDutyCycles |-> s.minOverlapDutyCycles,
   minActiveDutyCycles |-> s.minActiveDutyCycles,
   boostFactors |-> s.boostFactors]

\* the fields read sets from the record, with the connected sets and counts
\* empty at first
readFields(proto) ==
  [numInputs |-> proto.numInputs,
   numColumns |-> proto.numColumns,
   columnDimensions |-> proto.columnDimensions,
   inputDimensions |-> proto.inputDimensions,
   potentialRadius |-> proto.potentialRadius,
   potentialPct |-> proto.potentialPct,
   globalInhibition |-> proto.globalInhibition,
   numActiveColumnsPerInhArea |-> proto.numActiveColumnsPerInhArea,
   localAreaDensity |-> proto.localAreaDensity,
   stimulusThreshold |-> proto.stimulusThreshold,
   synPermInactiveDec |-> proto.synPermInactiveDec,
   synPermActiveInc |-> proto.synPermActiveInc,
   synPermBelowStimulusInc |-> proto.synPermBelowStimulusInc,
   synPermConnected |-> proto.synPermConnected,
   minPctOverlapDutyCycles |-> proto.minPctOverlapDutyCycles,
   minPctActiveDutyCycles |-> proto.minPctActiveDutyCycles,
   dutyCyclePeriod |-> proto.dutyCyclePeriod,
   maxBoost |-> proto.maxBoost,
   seed |-> getSeed(proto.random),
   wrapAround |-> proto.wrapAround,
   synPermMin |-> proto.synPermMin,
   synPermMax |-> proto.synPermMax,
   synPermTrimThreshold |-> proto.synPermTrimThreshold,
   updatePeriod |-> proto.updatePeriod,
   iterationNum |-> proto.iterationNum,
   iterationLearnNum |-> proto.iterationLearnNum,
   random |-> readRandom(proto.random),
   potentialPools |-> proto.potentialPools,
   permanences |-> proto.permanences,
   tieBreaker |-> proto.tieBreaker,
   connectedSynapses |-> [c \in 0..(proto.numColumns - 1) |-> {}],
   connectedCounts |-> [c \in 0..(proto.numColumns - 1) |-> 0],
   overlapDutyCycles |-> proto.overlapDutyCycles,
   activeDutyCycles |-> proto.activeDutyCycles,
   minOverlapDutyCycles |-> proto.minOverlapDutyCycles,
   minActiveDutyCycles |-> proto.minActiveDutyCycles,
   boostFactors |-> proto.boostFactors,
   inhibitionRadius |-> proto.inhibitionRadius]

\* A loop of read that runs the guarded update with raisePerm=True.
RECURSIVE readColumnsRaising(_, _)
readColumnsRaising(s, i) ==
  IF i = s.numColumns THEN s
  ELSE readColumnsRaising(
         updatePermanencesForColumn(s, s.permanences[i], i, TRUE).s, i + 1)

\* the loop of read over the columns from i on: the guarded update of every
\* stored row with raisePerm=False
RECURSIVE readColumnsFrom(_, _)
readColumnsFrom(s, i) ==
  IF i = s.numColumns THEN s
  ELSE readColumnsFrom(
         updatePermanencesForColumn(s, s.permanences[i], i, FALSE).s, i + 1)

\* read(proto): the instance rebuilt from the record
read(proto) == readColumnsFrom(readFields(proto), 0)

---------------------------------------------------------------------------
(* The runs: construction, then calls of the public methods.               *)

\* bounds of the model: compute calls and setter calls made on an instance
MaxIter == 3
MaxSetCalls == 1

\* the constructor arguments the runs start from
InitArgs(seed, globalInhibition, stimulusThreshold) ==
  [inputDimensions |-> <<3>>,
   columnDimensions |-> <<4>>,
   potentialRadius |-> 1,
   potentialPct |-> Rat(2, 3),
   globalInhibition |-> globalInhibition,
   localAreaDensity |-> Rat(-1, 1),
   numActiveColumnsPerInhArea |-> 2,
   stimulusThreshold |-> stimulusThreshold,
   synPermInactiveDec |-> 3,
   synPermActiveInc |-> 4,
   synPermConnected |-> 10,
   minPctOverlapDutyCycles |-> Rat(1, 2),
   minPctActiveDutyCycles |-> Rat(1, 2),
   dutyCyclePeriod |-> 2,
   maxBoost |-> RInt(2),
   seed |-> seed,
   wrapAround |-> TRUE]

\* The constructor calls the runs start from.  Construction raises for most
\* seeds (see initPermConnected); it succeeds for 352, 2814 and 3484.
ArgsGiven == {InitArgs(3484, TRUE, 1), InitArgs(2814, FALSE, 2)}

\* what an unseeded generator (seed -1) may start from
Entropy == {352, 2814}

\* input vectors handed to compute: bit vectors of the right length and one
\* that is too short
InputVectors == {<<0, 0, 0>>, <<1, 1, 1>>, <<1, 0, 0>>, <<1, 1>>}

\* the (learn, stripNeverLearned) arguments handed to compute;
\* stripNeverLearned is read only when learn is false
ComputeFlags == {<<TRUE, TRUE>>, <<FALSE, TRUE>>, <<FALSE, FALSE>>}

\* the (inputVector, learn) arguments handed to compute in the runs that also
\* call the setters or drive two instances
ComputeArgs ==
  {<<<<1, 1, 1>>, TRUE>>, <<<<1, 0, 0>>, TRUE>>, <<<<1, 1, 1>>, FALSE>>}

\* the columns the setters are called on
ColumnArgs == {0, 2}

\* dense vectors handed to setPermanence (in permanence units) and to
\* setPotential
PermanenceArgs == {<<-1, 1, 21>>, <<10, 5, 11>>}
PotentialArgs == {<<1, 0, 0>>, <<1, 1, 1>>}
UpdatePeriodArgs == {1, 2}

\* a dense Python array given as a sequence, indexed from 0
Dense(q) == [j \in 0..(Len(q) - 1) |-> q[j + 1]]

Init ==
  /\ \E a \in ArgsGiven, entropy \in Entropy :
       \E made \in {SpatialPooler(a, entropy)} :
         /\ ~made.exc
         /\ sp = made.s
  /\ activeArray = [c \in Columns(sp) |-> 0]
  /\ lastCall = [op |-> "__init__", exc |-> ""]
  /\ trace = NoTrace
  /\ nSetCalls = 0
  /\ sp2 = <<>>
  /\ activeArray2 = <<>>

\* sp.compute(inputVector, learn, activeArray, stripNeverLearned)
Compute(inputVector, learn, stripNeverLearned) ==
  /\ sp.iterationNum < MaxIter
  /\ \E r \in {compute(sp, inputVector, learn, activeArray, stripNeverLearned)} :
       /\ sp' = r.s
       /\ activeArray' = r.activeArray
       /\ trace' = r.trace
       /\ lastCall' = [op |-> "compute", inputVector |-> inputVector,
                       learn |-> learn, stripNeverLearned |-> stripNeverLearned,
                       exc |-> r.exc]
  /\ UNCHANGED <<nSetCalls, sp2, activeArray2>>

\* A setPermanence that also takes the positions of the positive entries as
\* the potential pool of the column.
setPermanenceSettingPool(s, column, permanence) ==
  updatePermanencesForColumn(
    [s EXCEPT !.potentialPools[column] =
                 {j \in DOMAIN permanence : permanence[j] > 0}],
    permanence, column, FALSE).s

\* setPermanence(column, permanence)
setPermanence(s, column, permanence) ==
  updatePermanencesForColumn(s, permanence, column, FALSE).s

\* sp.setPermanence(column, permanence)
SetPermanence(column, permanence) ==
  /\ nSetCalls < MaxSetCalls
  /\ column < sp.numColumns
  /\ sp' = setPermanence(sp, column, Dense(permanence))
  /\ lastCall' = [op |-> "setPermanence", column |-> column,
                  permanence |-> permanence, exc |-> ""]
  /\ trace' = NoTrace
  /\ nSetCalls' = nSetCalls + 1
  /\ UNCHANGED <<activeArray, sp2, activeArray2>>

\* A setPotential that stores the pool without comparing its size with
\* stimulusThreshold.
setPotentialUnchecked(s, column, potential) ==
  [s |-> [s EXCEPT !.potentialPools[column] =
                      {j \in DOMAIN potential : potential[j] > 0}],
   exc |-> FALSE]

\* setPotential(column, potential): [s, exc]
setPotential(s, column, potential) ==
  LET potentialSparse == {j \in DOMAIN potential : potential[j] > 0}
  IN IF Cardinality(potentialSparse) < s.stimulusThreshold
     THEN [s |-> s, exc |-> TRUE]
     ELSE [s |-> [s EXCEPT !.potentialPools[column] = potentialSparse],
           exc |-> FALSE]

\* sp.setPotential(column, potential)
SetPotential(column, potential) ==
  /\ nSetCalls < MaxSetCalls
  /\ column < sp.numColumns
  /\ \E r \in {setPotential(sp, column, Dense(potential))} :
       /\ sp' = r.s
       /\ lastCall' = [op |-> "setPotential", column |-> column,
                       potential |-> potential,
                       exc |-> IF r.exc THEN "Exception" ELSE ""]
  /\ trace' = NoTrace
  /\ nSetCalls' = nSetCalls + 1
  /\ UNCHANGED <<activeArray, sp2, activeArray2>>

\* setUpdatePeriod(updatePeriod)
setUpdatePeriod(s, updatePeriod) == [s EXCEPT !.updatePeriod = updatePeriod]

\* sp.setUpdatePeriod(updatePeriod)
SetUpdatePeriod(updatePeriod) ==
  /\ nSetCalls < MaxSetCalls
  /\ sp' = setUpdatePeriod(sp, updatePeriod)
  /\ lastCall' = [op |-> "setUpdatePeriod", updatePeriod |-> updatePeriod,
                  exc |-> ""]
  /\ trace' = NoTrace
  /\ nSetCalls' = nSetCalls + 1
  /\ UNCHANGED <<activeArray, sp2, activeArray2>>

\* one instance, stepped with every input and flag, its update period set
Next ==
  \/ \E inputVector \in InputVectors, flags \in ComputeFlags :
       Compute(inputVector, flags[1], flags[2])
  \/ \E updatePeriod \in UpdatePeriodArgs : SetUpdatePeriod(updatePeriod)

Spec == Init /\ [][Next]_vars

\* one instance, stepped and written to through the setters
NextSet ==
  \/ \E args \in ComputeArgs : Compute(args[1], args[2], TRUE)
  \/ \E column \in ColumnArgs, permanence \in PermanenceArgs :
       SetPermanence(column, permanence)
  \/ \E column \in ColumnArgs, potential \in PotentialArgs :
       SetPotential(column, potential)
  \/ \E updatePeriod \in UpdatePeriodArgs : SetUpdatePeriod(updatePeriod)

SpecSet == Init /\ [][NextSet]_vars

\* two instances built by the same constructor call, each from its own
\* generator state when the call gives no seed
InitPair ==
  /\ \E a \in ArgsGiven \cup {InitArgs(-1, TRUE, 1)} :
       \E entropy \in Entropy, entropy2 \in Entropy :
         \E made \in {SpatialPooler(a, entropy)},
            made2 \in {SpatialPooler(a, entropy2)} :
           /\ ~made.exc
           /\ ~made2.exc
           /\ sp = made.s
           /\ sp2 = made2.s
  /\ activeArray = [c \in Columns(sp) |-> 0]
  /\ activeArray2 = [c \in Columns(sp2) |-> 0]
  /\ lastCall = [op |-> "__init__", exc |-> ""]
  /\ trace = NoTrace
  /\ nSetCalls = 0

\* the same compute call made on both instances
ComputeBoth(inputVector, learn, stripNeverLearned) ==
  /\ sp.iterationNum < MaxIter
  /\ \E r \in {compute(sp, inputVector, learn, activeArray, stripNeverLearned)},
        r2 \in {compute(sp2, inputVector, learn, activeArray2, stripNeverLearned)} :
       /\ sp' = r.s
       /\ activeArray' = r.activeArray
       /\ sp2' = r2.s
       /\ activeArray2' = r2.activeArray
       /\ trace' = r.trace
       /\ lastCall' = [op |-> "compute", inputVector |-> inputVector,
                       learn |-> learn, stripNeverLearned |-> stripNeverLearned,
                       exc |-> r.exc]
  /\ UNCHANGED nSetCalls

NextPair ==
  \E inputVector \in InputVectors, learn \in BOOLEAN :
    ComputeBoth(inputVector, learn, TRUE)

SpecPair == InitPair /\ [][NextPair]_vars

\* sp2 = SpatialPooler.read(proto) after sp.write(proto); the caller keeps
\* one output array for each instance
WriteRead ==
  /\ sp2 = <<>>
  /\ sp2' = read(write(sp))
  /\ activeArray2' = activeArray
  /\ lastCall' = [op |-> "read", exc |-> ""]
  /\ trace' = NoTrace
  /\ UNCHANGED <<sp, activeArray, nSetCalls>>

\* one instance stepped and written to through the setters, then written
\* and read back, then both instances stepped with the same calls
NextSave ==
  \/ /\ sp2 = <<>>
     /\ \E args \in ComputeArgs : Compute(args[1], args[2], TRUE)
  \/ /\ sp2 = <<>>
     /\ \E column \in ColumnArgs, permanence \in PermanenceArgs :
          SetPermanence(column, permanence)
  \/ /\ sp2 = <<>>
     /\ \E updatePeriod \in UpdatePeriodArgs : SetUpdatePeriod(updatePeriod)
  \/ WriteRead
  \/ /\ sp2 # <<>>
     /\ \E args \in ComputeArgs : ComputeBoth(args[1], args[2], TRUE)

SpecSave == Init /\ [][NextSave]_vars

\* constructor calls that differ in the two density parameters
LocalAreaDensityArgs == {Rat(-1, 1), Rat(1, 4), Rat(1, 2), Rat(4, 5)}
NumActiveArgs == {0, 2}

ConfigArgs ==
  {[InitArgs(3484, TRUE, 1) EXCEPT !.localAreaDensity = localAreaDensity,
                                   !.numActiveColumnsPerInhArea = numActive] :
     localAreaDensity \in LocalAreaDensityArgs, numActive \in NumActiveArgs}

\* a constructor call that may raise: no instance is left when it does
InitConfig ==
  /\ \E a \in ConfigArgs :
       \E made \in {SpatialPooler(a, a.seed)} :
         /\ sp = IF made.exc THEN <<>> ELSE made.s
         /\ activeArray = IF made.exc THEN <<>>
                          ELSE [c \in Columns(made.s) |-> 0]
         /\ lastCall = [op |-> "__init__", args |-> a,
                        exc |-> IF made.exc THEN "AssertionError" ELSE ""]
  /\ trace = NoTrace
  /\ nSetCalls = 0
  /\ sp2 = <<>>
  /\ activeArray2 = <<>>

\* the instances that were constructed, stepped with every input and flag
NextConfig ==
  /\ sp # <<>>
  /\ \E inputVector \in InputVectors, flags \in ComputeFlags :
       Compute(inputVector, flags[1], flags[2])

SpecConfig == InitConfig /\ [][NextConfig]_vars

\* tie-broken overlaps, densities and inhibition radii handed to the two
\* inhibition methods
ScoreArgs == {RInt(0), RInt(1), Rat(2001, 2000), RInt(2)}
DensityArgs == {Rat(1, 4), Rat(3, 8), Rat(1, 2)}
RadiusArgs == {2, 4}

\* _inhibitColumnsGlobal(overlaps, density) and
\* _inhibitColumnsLocal(overlaps, density) called on the instance with its
\* inhibition radius at radius, once on a new instance; the winners of the
\* first are written to activeArray, those of the second to activeArray2
InhibitBoth(overlaps, density, radius) ==
  /\ lastCall.op = "__init__"
  /\ activeArray' =
       fillActive(sp, inhibitColumnsGlobal(
                        [sp EXCEPT !.inhibitionRadius = radius], overlaps, density))
  /\ activeArray2' =
       fillActive(sp, inhibitColumnsLocal(
                        [sp EXCEPT !.inhibitionRadius = radius], overlaps, density))
  /\ lastCall' = [op |-> "inhibit", overlaps |-> overlaps, density |-> density,
                  radius |-> radius, exc |-> ""]
  /\ UNCHANGED <<sp, trace, nSetCalls, sp2>>

NextInhibit ==
  \E overlaps \in [Columns(sp) -> ScoreArgs], density \in DensityArgs,
     radius \in RadiusArgs :
    InhibitBoth(overlaps, density, radius)

\* the two inhibition methods applied to the same overlaps
SpecInhibit == Init /\ [][NextInhibit]_vars

\* the duty cycles and inhibition radii handed to the two min duty cycle
\* methods
DutyArgs == {RInt(0), Rat(1, 2), RInt(1)}
ActiveDutyArgs == {<<0, 0, 0, 1>>, <<1, 0, 1, 0>>, <<0, 1, 1, 0>>}
MinDutyRadiusArgs == {1, 2, 3, 4}

\* _updateMinDutyCyclesLocal() and _updateMinDutyCyclesGlobal() called on
\* the instance with the given duty cycles and inhibition radius, once on a
\* new instance; sp is the instance after the first, sp2 after the second
MinDutyBoth(overlapDuty, activeDuty, radius) ==
  /\ lastCall.op = "__init__"
  /\ \E s \in {[sp EXCEPT !.overlapDutyCycles = overlapDuty,
                          !.activeDutyCycles =
                             [c \in Columns(sp) |-> RInt(activeDuty[c + 1])],
                          !.inhibitionRadius = radius]} :
       /\ sp' = updateMinDutyCyclesLocal(s)
       /\ sp2' = updateMinDutyCyclesGlobal(s)
  /\ lastCall' = [op |-> "updateMinDutyCycles", exc |-> ""]
  /\ UNCHANGED <<activeArray, trace, nSetCalls, activeArray2>>

NextMinDuty ==
  \E overlapDuty \in [Columns(sp) -> DutyArgs], activeDuty \in ActiveDutyArgs,
     radius \in MinDutyRadiusArgs :
    MinDutyBoth(overlapDuty, activeDuty, radius)

\* the two min duty cycle methods applied to the same duty cycles
SpecMinDuty == Init /\ [][NextMinDuty]_vars

\* the number of compute calls of a run on the all-ones input
MaxOnesIter == 6

\* six columns over three inputs under local inhibition, one connected
\* synapse required; construction succeeds for these seeds
OnesArgs ==
  {[InitArgs(seed, FALSE, 1) EXCEPT !.columnDimensions = <<6>>] :
     seed \in {13473, 44489, 56278, 56424}}

InitOnes ==
  /\ \E a \in OnesArgs :
       \E made \in {SpatialPooler(a, 0)} :
         /\ ~made.exc
         /\ sp = made.s
  /\ activeArray = [c \in Columns(sp) |-> 0]
  /\ lastCall = [op |-> "__init__", exc |-> ""]
  /\ trace = NoTrace
  /\ nSetCalls = 0
  /\ sp2 = <<>>
  /\ activeArray2 = <<>>

\* sp.compute(all ones, True, activeArray)
LearnOnes ==
  /\ sp.iterationNum < MaxOnesIter
  /\ \E r \in {compute(sp, [j \in 1..sp.numInputs |-> 1], TRUE, activeArray, TRUE)} :
       /\ sp' = r.s
       /\ activeArray' = r.activeArray
       /\ trace' = r.trace
       /\ lastCall' = [op |-> "compute",
                       inputVector |-> [j \in 1..sp.numInputs |-> 1],
                       learn |-> TRUE, stripNeverLearned |-> TRUE,
                       exc |-> r.exc]
  /\ UNCHANGED <<nSetCalls, sp2, activeArray2>>

NextOnes ==
  \/ LearnOnes
  \/ \E updatePeriod \in UpdatePeriodArgs : SetUpdatePeriod(updatePeriod)

\* an instance under local inhibition whose caller keeps handing it the
\* all-ones input with learn = True: weak fairness of LearnOnes,
\* WF_vars(LearnOnes), with ENABLED <<LearnOnes>>_vars written out as the
\* guard of the call (a compute call always changes iterationNum)
SpecOnes ==
  /\ InitOnes
  /\ [][NextOnes]_vars
  /\ \/ []<>(~(sp.iterationNum < MaxOnesIter))
     \/ []<><<LearnOnes>>_vars

\* the permanences (in units of 1/synPermMax) and masks handed to
\* _raisePermanenceToThreshold
RaisePermArgs == {-3, 0, 7, 10, 11, 24}
RaiseMaskArgs == {{0}, {0, 1}, {1, 2}, {0, 1, 2}}

\* _raisePermanenceToThreshold(perm, mask) called once on a new instance
Raise(perm, mask) ==
  /\ lastCall.op = "__init__"
  /\ \E r \in {raisePermanenceToThreshold(sp, perm, mask)} :
       lastCall' = [op |-> "_raisePermanenceToThreshold", perm |-> perm,
                    mask |-> mask, raised |-> r.perm,
                    exc |-> IF r.exc THEN "Exception" ELSE ""]
  /\ UNCHANGED <<sp, activeArray, trace, nSetCalls, sp2, activeArray2>>

NextRaise ==
  \E perm \in [Inputs(sp) -> RaisePermArgs], mask \in RaiseMaskArgs :
    Raise(perm, mask)

\* the raise to the stimulus threshold applied to permanence vectors
SpecRaise == Init /\ [][NextRaise]_vars

\* the grids and radii handed to _getNeighborsND
DimensionArgs == {<<4>>, <<3>>, <<2, 3>>, <<3, 3>>, <<2, 2, 2>>}
NeighborRadiusArgs == 0..3

\* _getNeighborsND(columnIndex, dimensions, radius, wrapAround) called once
GetNeighbors(columnIndex, dimensions, radius, wrapAround) ==
  /\ lastCall.op = "__init__"
  /\ lastCall' = [op |-> "_getNeighborsND", columnIndex |-> columnIndex,
                  dimensions |-> dimensions, radius |-> radius,
                  wrapAround |-> wrapAround,
                  neighbors |-> getNeighborsND(columnIndex, dimensions, radius,
                                               wrapAround),
                  exc |-> ""]
  /\ UNCHANGED <<sp, activeArray, trace, nSetCalls, sp2, activeArray2>>

NextNeighbors ==
  \E dimensions \in DimensionArgs, radius \in NeighborRadiusArgs,
     wrapAround \in BOOLEAN :
    \E columnIndex \in 0..(DimProd(dimensions, 1) - 1) :
      GetNeighbors(columnIndex, dimensions, radius, wrapAround)

\* the neighbourhood function applied to grids of one to three dimensions
SpecNeighbors == Init /\ [][NextNeighbors]_vars

\* the (columnDimensions, inputDimensions) of the instances _mapColumn is
\* called on
TopologyArgs ==
  {<< <<3>>, <<7>> >>, << <<3, 5>>, <<7, 11>> >>, << <<4>>, <<3>> >>,
   << <<2>>, <<5>> >>, << <<5>>, <<2>> >>, << <<8>>, <<16>> >>,
   << <<6>>, <<3>> >>, << <<4, 4>>, <<2, 8>> >>}

\* _mapColumn(index) on an instance of the given dimensions, called once
MapColumn(columnDimensions, inputDimensions, index) ==
  /\ lastCall.op = "__init__"
  /\ lastCall' = [op |-> "_mapColumn", columnDimensions |-> columnDimensions,
                  inputDimensions |-> inputDimensions, index |-> index,
                  inputIndex |->
                    mapColumn([sp EXCEPT !.columnDimensions = columnDimensions,
                                         !.inputDimensions = inputDimensions],
                              index),
                  exc |-> ""]
  /\ UNCHANGED <<sp, activeArray, trace, nSetCalls, sp2, activeArray2>>

NextMapColumn ==
  \E topology \in TopologyArgs :
    \E index \in 0..(DimProd(topology[1], 1) - 1) :
      MapColumn(topology[1], topology[2], index)

\* the map from columns to the centres of their receptive fields
SpecMapColumn == Init /\ [][NextMapColumn]_vars

\* the thresholds handed to setStimulusThreshold
StimulusThresholdArgs == {1, 2, 3}

\* sp.setStimulusThreshold(stimulusThreshold), once on a new instance
SetStimulusThreshold(stimulusThreshold) ==
  /\ lastCall.op = "__init__"
  /\ sp' = [sp EXCEPT !.stimulusThreshold = stimulusThreshold]
  /\ lastCall' = [op |-> "setStimulusThreshold",
                  stimulusThreshold |-> stimulusThreshold, exc |-> ""]
  /\ UNCHANGED <<activeArray, trace, nSetCalls, sp2, activeArray2>>

\* The start of a guarded update that stores the clamped row before it
\* compares the size of the mask with stimulusThreshold.
UpdateColumnStoringFirst(perm, index) ==
  /\ lastCall.op \in {"__init__", "setStimulusThreshold"}
  /\ sp' = [sp EXCEPT !.permanences[index] = clip(sp, perm)]
  /\ lastCall' =
       IF Cardinality(sp.potentialPools[index]) < sp.stimulusThreshold
       THEN [op |-> "_updatePermanencesForColumn", index |-> index,
             given |-> perm, perm |-> perm, n |-> 0, pc |-> "raised",
             exc |-> "Exception"]
       ELSE [op |-> "_updatePermanencesForColumn", index |-> index,
             given |-> perm, perm |-> clip(sp, perm), n |-> 0, pc |-> "while",
             exc |-> ""]
  /\ UNCHANGED <<activeArray, trace, nSetCalls, sp2, activeArray2>>

\* _updatePermanencesForColumn(perm, index, raisePerm=True) up to the loop
\* of _raisePermanenceToThreshold: the exception when the mask is smaller
\* than stimulusThreshold, the clamp otherwise.  lastCall holds the locals of
\* the call: the vector, the iterations made, and where the call stands
UpdateColumn(perm, index) ==
  /\ lastCall.op \in {"__init__", "setStimulusThreshold"}
  /\ lastCall' =
       IF Cardinality(sp.potentialPools[index]) < sp.stimulusThreshold
       THEN [op |-> "_updatePermanencesForColumn", index |-> index,
             given |-> perm, perm |-> perm, n |-> 0, pc |-> "raised",
             exc |-> "Exception"]
       ELSE [op |-> "_updatePermanencesForColumn", index |-> index,
             given |-> perm, perm |-> clip(sp, perm), n |-> 0, pc |-> "while",
             exc |-> ""]
  /\ UNCHANGED <<sp, activeArray, trace, nSetCalls, sp2, activeArray2>>

\* one iteration of the while-loop of _raisePermanenceToThreshold
LoopIteration ==
  /\ lastCall.op = "_updatePermanencesForColumn"
  /\ lastCall.pc = "while"
  /\ lastCall' =
       IF Cardinality({j \in Inputs(sp) :
                         lastCall.perm[j] > sp.synPermConnected})
            >= sp.stimulusThreshold
       THEN [lastCall EXCEPT !.pc = "return"]
       ELSE [lastCall EXCEPT
               !.perm = addOnMask(lastCall.perm,
                                  sp.potentialPools[lastCall.index],
                                  sp.synPermBelowStimulusInc),
               !.n = lastCall.n + 1]
  /\ UNCHANGED <<sp, activeArray, trace, nSetCalls, sp2, activeArray2>>

\* the statements of _updatePermanencesForColumn after the raise
StoreColumn ==
  /\ lastCall.op = "_updatePermanencesForColumn"
  /\ lastCall.pc = "return"
  /\ \E stored \in {clip(sp, trim(sp, lastCall.perm))} :
       sp' = [sp EXCEPT
                !.permanences[lastCall.index] = stored,
                !.connectedSynapses[lastCall.index] =
                   {j \in Inputs(sp) : stored[j] >= sp.synPermConnected},
                !.connectedCounts[lastCall.index] =
                   Cardinality({j \in Inputs(sp) :
                                  stored[j] >= sp.synPermConnected})]
  /\ lastCall' = [lastCall EXCEPT !.pc = "done"]
  /\ UNCHANGED <<activeArray, trace, nSetCalls, sp2, activeArray2>>

NextLoop ==
  \/ \E stimulusThreshold \in StimulusThresholdArgs :
       SetStimulusThreshold(stimulusThreshold)
  \/ \E perm \in [Inputs(sp) -> RaisePermArgs], index \in ColumnArgs :
       UpdateColumn(perm, index)
  \/ LoopIteration
  \/ StoreColumn

\* the guarded update with raisePerm = True run statement by statement; a
\* call that has started runs on
SpecLoop ==
  /\ Init
  /\ [][NextLoop]_vars
  /\ WF_vars(LoopIteration)
  /\ WF_vars(StoreColumn)

\* sp.setMinOverlapDutyCycles(minOverlapDutyCycles), after a setPermanence
SetMinOverlapDutyCycles(minOverlapDutyCycles) ==
  /\ lastCall.op = "setPermanence"
  /\ sp' = [sp EXCEPT !.minOverlapDutyCycles =
              [c \in Columns(sp) |-> minOverlapDutyCycles[c + 1]]]
  /\ lastCall' = [op |-> "setMinOverlapDutyCycles",
                  minOverlapDutyCycles |-> minOverlapDutyCycles, exc |-> ""]
  /\ trace' = NoTrace
  /\ UNCHANGED <<activeArray, nSetCalls, sp2, activeArray2>>

\* sp._bumpUpWeakColumns()
BumpUpWeakColumns ==
  /\ lastCall.op = "setMinOverlapDutyCycles"
  /\ sp' = bumpUpWeakColumns(sp)
  /\ lastCall' = [op |-> "_bumpUpWeakColumns", exc |-> ""]
  /\ trace' = [NoTrace EXCEPT !.weakColumns = weakColumnsOf(sp)]
  /\ UNCHANGED <<activeArray, nSetCalls, sp2, activeArray2>>

NextBump ==
  \/ \E column \in ColumnArgs, permanence \in [1..3 -> {0, 1, 2, 9, 20}] :
       SetPermanence(column, permanence)
  \/ \E minOverlapDutyCycles \in
          {<<RInt(0), Rat(1, 2), RInt(0), Rat(1, 2)>>,
           <<Rat(1, 2), Rat(1, 2), Rat(1, 2), Rat(1, 2)>>} :
       SetMinOverlapDutyCycles(minOverlapDutyCycles)
  \/ BumpUpWeakColumns

\* rows written through setPermanence, columns made weak through
\* setMinOverlapDutyCycles, then the bump
SpecBump == Init /\ [][NextBump]_vars

---------------------------------------------------------------------------
(* The claims.                                                             *)

C2_RaisedToStimulusThreshold ==
  /\ lastCall.op = "__init__" =>
       \A c \in Columns(sp) : sp.connectedCounts[c] >= sp.stimulusThreshold
  /\ (lastCall.op = "compute" /\ lastCall.exc = "" /\ lastCall.learn) =>
       \A c \in trace.activeColumns :
         trace.raisedCounts[c] >= sp.stimulusThreshold

\* a learning step on the all-zeros input with stimulusThreshold 2: every
\* potential synapse of a winner was decremented, and the winner still has
\* its two connected synapses
C2_Witness ==
  /\ lastCall.op = "compute" /\ lastCall.exc = "" /\ lastCall.learn
  /\ lastCall.inputVector = <<0, 0, 0>>
  /\ sp.stimulusThreshold = 2
  /\ \E c \in trace.activeColumns : trace.raisedCounts[c] = 2

\* C3: in every reachable state every stored permanence is 0 or lies in
\* [synPermTrimThreshold, synPermMax].
C3_PermanenceRange ==
  \A c \in Columns(sp), j \in Inputs(sp) :
    \/ sp.permanences[c][j] = 0
    \/ /\ sp.synPermTrimThreshold <= sp.permanences[c][j]
       /\ sp.permanences[c][j] <= sp.synPermMax

\* setPermanence was handed a value below 0, one between 0 and the trim
\* threshold and one above synPermMax, and stored 0, 0 and synPermMax
C3_Witness ==
  /\ lastCall.op = "setPermanence"
  /\ \E j, k, l \in Inputs(sp) :
       /\ lastCall.permanence[j + 1] < 0
       /\ sp.permanences[lastCall.column][j] = 0
       /\ 0 < lastCall.permanence[k + 1]
       /\ lastCall.permanence[k + 1] < sp.synPermTrimThreshold
       /\ sp.permanences[lastCall.column][k] = 0
       /\ lastCall.permanence[l + 1] > sp.synPermMax
       /\ sp.permanences[lastCall.column][l] = sp.synPermMax

\* C4: between operations a stored permanence greater than 0 implies that
\* the input is in the potential pool of the column, after construction and
\* after any compute, setPermanence and setPotential calls.
C4_PermanenceWithinPotentialPool ==
  \A c \in Columns(sp), j \in Inputs(sp) :
    sp.permanences[c][j] > 0 => j \in sp.potentialPools[c]

NonLearningStep ==
  lastCall'.op = "compute" /\ lastCall'.exc = "" /\ ~lastCall'.learn

\* C6 as claimed: compute with learn = False changes nothing in the state of
\* the instance, the iteration counters included.
C6_NonLearningChangesNothing == [][NonLearningStep => sp' = sp]_vars

\* C6 as amended: compute with learn = False changes nothing in the state of
\* the instance except iterationNum, which it increments by one; called
\* twice in a row with the same input and stripNeverLearned it writes the
\* same output both times.
C6_NonLearningOnlyCounts ==
  [][NonLearningStep =>
       /\ sp' = [sp EXCEPT !.iterationNum = sp.iterationNum + 1]
       /\ (/\ lastCall.op = "compute" /\ lastCall.exc = "" /\ ~lastCall.learn
           /\ lastCall.inputVector = lastCall'.inputVector
           /\ lastCall.stripNeverLearned = lastCall'.stripNeverLearned)
          => activeArray' = activeArray]_vars

\* a call with learn = False after a learning call, with active columns
\* written and the two iteration counters apart
C6_Witness ==
  /\ lastCall.op = "compute" /\ lastCall.exc = "" /\ ~lastCall.learn
  /\ sp.iterationLearnNum >= 1
  /\ sp.iterationNum >= sp.iterationLearnNum + 2
  /\ \E c \in Columns(sp) : activeArray[c] = 1

\* C7: a compute call whose input vector has not numInputs entries raises
\* before any work is done: the instance (iteration counters, permanences,
\* duty cycles, boost factors, inhibition radius) and the caller's output
\* array are as they were before the call.
C7_WrongLengthChangesNothing ==
  [][(lastCall'.op = "compute" /\ Len(lastCall'.inputVector) # sp.numInputs) =>
       (lastCall'.exc = "ValueError" /\ sp' = sp /\ activeArray' = activeArray)]_vars

\* the call was refused after earlier calls had counted, and the output
\* array still shows the active columns of an earlier call
C7_Witness ==
  /\ lastCall.op = "compute" /\ lastCall.exc = "ValueError"
  /\ Len(lastCall.inputVector) # sp.numInputs
  /\ sp.iterationLearnNum >= 1
  /\ \E c \in Columns(sp) : activeArray[c] = 1

\* a successful compute call with learn = True
LearningStep ==
  lastCall'.op = "compute" /\ lastCall'.exc = "" /\ lastCall'.learn

\* the row a bump stores for column c
BumpedRow(c) ==
  clip(sp, trim(sp, addOnMask(sp.permanences[c], sp.potentialPools[c],
                              sp.synPermBelowStimulusInc)))

\* C8: in a learning step the duty cycles are updated before the weak columns
\* are bumped, and the min duty cycles are refreshed after the bump and the
\* boost update: the columns bumped are those whose overlap duty cycle as
\* updated in this step is below the minOverlapDutyCycles left by the last
\* earlier update round; a column that did not win ends with its bumped row
\* if it is one of them and with its old row otherwise; and the boost
\* factors follow from the updated active duty cycles and the
\* minActiveDutyCycles of before the step.
C8_BumpUsesPreviousMinDuty ==
  [][LearningStep =>
       /\ trace'.weakColumns =
            {c \in Columns(sp) :
               RLt(sp'.overlapDutyCycles[c], sp.minOverlapDutyCycles[c])}
       /\ \A c \in Columns(sp) \ trace'.activeColumns :
            sp'.permanences[c] =
              IF RLt(sp'.overlapDutyCycles[c], sp.minOverlapDutyCycles[c])
              THEN BumpedRow(c) ELSE sp.permanences[c]
       /\ sp'.boostFactors =
            updateBoostFactors(
              [sp EXCEPT !.activeDutyCycles = sp'.activeDutyCycles]).boostFactors
    ]_vars

\* a learning step on an update round that bumped a column which did not
\* win, and whose overlap duty cycle is not below the minOverlapDutyCycles
\* refreshed in the same step
C8_Witness ==
  /\ lastCall.op = "compute" /\ lastCall.exc = "" /\ lastCall.learn
  /\ trace.updateRound
  /\ \E c \in trace.weakColumns \ trace.activeColumns :
       ~RLt(sp.overlapDutyCycles[c], sp.minOverlapDutyCycles[c])

C11_BelowThresholdNeverWins ==
  (lastCall.op = "compute" /\ lastCall.exc = "") =>
    \A c \in Columns(sp) :
      activeArray[c] = 1 => RLe(RInt(sp.stimulusThreshold), trace.overlaps[c])

\* the local inhibition area of column c at radius r: the column and its
\* neighbours, without wrapping
InhibitionArea(c, r) ==
  {c} \cup SeqToSet(getNeighborsND(c, sp.columnDimensions, r, FALSE))

\* C12: after local inhibition at most half of the columns of every column's
\* local inhibition area (at the radius the call worked with) are active, and
\* with numActiveColumnsPerInhArea in use at most that many columns of the
\* area are active.
C12_LocalAreaAtMostHalfActive ==
  [][(lastCall'.op = "compute" /\ lastCall'.exc = "" /\ ~trace'.global) =>
       \A c \in Columns(sp) :
         LET active == InhibitionArea(c, sp.inhibitionRadius)
                         \cap trace'.activeColumns
         IN /\ 2 * Cardinality(active)
                 <= Cardinality(InhibitionArea(c, sp.inhibitionRadius))
            /\ ~RLt(RInt(0), sp.localAreaDensity) =>
                 Cardinality(active) <= sp.numActiveColumnsPerInhArea
    ]_vars

\* the two inhibition methods were called with a radius of at least
\* max(columnDimensions): the neighbourhood of every column is the region
WholeRegionInhibition ==
  lastCall.op = "inhibit" /\ lastCall.radius >= SeqMax(sp.columnDimensions)

\* C13 as claimed: when the inhibition radius is at least
\* max(columnDimensions), local inhibition returns the same winners as global
\* inhibition for the same tie-broken overlaps and the same density.
C13_LocalEqualsGlobal ==
  WholeRegionInhibition => activeArray2 = activeArray

\* C13 as amended: when the inhibition radius is at least
\* max(columnDimensions), local inhibition returns the same winners as global
\* inhibition for the same tie-broken overlaps and the same density, provided
\* that the fractional part of density * numColumns is below 1/2 (the local
\* quota int(0.5 + density * numColumns) then equals the global
\* int(density * numColumns)) and that some tie-broken overlap is above 0.
C13_LocalEqualsGlobalSameQuota ==
  (/\ WholeRegionInhibition
   /\ PyInt(RAdd(Rat(1, 2), RMul(lastCall.density, RInt(sp.numColumns))))
        = PyInt(RMul(lastCall.density, RInt(sp.numColumns)))
   /\ \E c \in Columns(sp) : RLt(RInt(0), lastCall.overlaps[c]))
  => activeArray2 = activeArray

\* whole-region local inhibition at density 1/2 that agrees with global
\* inhibition, where a winner ties with a loser of higher index at a score
\* above 0
C13_Witness ==
  /\ WholeRegionInhibition
  /\ lastCall.density = Rat(1, 2)
  /\ activeArray2 = activeArray
  /\ \E w \in Columns(sp), l \in Columns(sp) :
       /\ activeArray2[w] = 1 /\ activeArray2[l] = 0 /\ w < l
       /\ lastCall.overlaps[w] = lastCall.overlaps[l]
       /\ RLt(RInt(0), lastCall.overlaps[w])

\* C14: after a compute call with learn = False and stripNeverLearned = True
\* the output has a 1 exactly at the winners of inhibition whose active duty
\* cycle is not 0, so no column with active duty cycle 0 is written as
\* active, and on an instance that has never run a learning step the output
\* is all zeros; with learn = True or stripNeverLearned = False the output has
\* a 1 exactly at the winners of inhibition.
C14_StripNeverLearned ==
  (lastCall.op = "compute" /\ lastCall.exc = "") =>
    IF ~lastCall.learn /\ lastCall.stripNeverLearned
    THEN /\ \A c \in Columns(sp) :
              activeArray[c] =
                IF c \in trace.activeColumns /\ sp.activeDutyCycles[c] # RInt(0)
                THEN 1 ELSE 0
         /\ sp.iterationLearnNum = 0 => \A c \in Columns(sp) : activeArray[c] = 0
    ELSE \A c \in Columns(sp) :
           activeArray[c] = IF c \in trace.activeColumns THEN 1 ELSE 0

\* a call with learn = False and stripNeverLearned = True after a learning
\* step: one winner that has never been active is left out of the output,
\* another winner is written
C14_Witness ==
  /\ lastCall.op = "compute" /\ lastCall.exc = ""
  /\ ~lastCall.learn /\ lastCall.stripNeverLearned
  /\ sp.iterationLearnNum >= 1
  /\ \E c \in trace.activeColumns :
       sp.activeDutyCycles[c] = RInt(0) /\ activeArray[c] = 0
  /\ \E c \in trace.activeColumns : activeArray[c] = 1

\* the positive positions of the vector handed to the setPotential call that
\* led to the next state
PositivePositions ==
  {j \in Inputs(sp) : lastCall'.potential[j + 1] > 0}

\* C15: setPotential(c, vec) with fewer than stimulusThreshold positive
\* entries in vec raises and leaves the whole instance unchanged; with at
\* least stimulusThreshold positive entries it replaces the potential pool of
\* c by the positive positions of vec (and changes nothing else).
C15_SetPotentialChecksThreshold ==
  [][lastCall'.op = "setPotential" =>
       IF Cardinality(PositivePositions) < sp.stimulusThreshold
       THEN lastCall'.exc = "Exception" /\ sp' = sp
       ELSE /\ lastCall'.exc = ""
            /\ sp' = [sp EXCEPT !.potentialPools[lastCall'.column] =
                                   PositivePositions]
    ]_vars

\* setPotential raised on a vector with one positive entry at
\* stimulusThreshold 2, and the pool of the column still has its two inputs
C15_Witness ==
  /\ lastCall.op = "setPotential" /\ lastCall.exc = "Exception"
  /\ sp.stimulusThreshold = 2
  /\ Cardinality({j \in Inputs(sp) : lastCall.potential[j + 1] > 0}) = 1
  /\ Cardinality(sp.potentialPools[lastCall.column]) = 2

ExactlyOneDensityParameter(a) ==
  \/ /\ RLt(RInt(0), a.localAreaDensity) /\ RLe(a.localAreaDensity, Rat(1, 2))
     /\ a.numActiveColumnsPerInhArea <= 0
  \/ /\ a.numActiveColumnsPerInhArea > 0
     /\ RLe(a.localAreaDensity, RInt(0))

\* C17: construction succeeds exactly when one of localAreaDensity (in
\* (0, 0.5]) and numActiveColumnsPerInhArea (> 0) is active and the other is
\* <= 0, and raises when both are positive, when neither is valid and when
\* localAreaDensity is above 0.5; the density a compute call inhibits with
\* is always in (0, 0.5].
C17_DensityParametersValidated ==
  /\ lastCall.op = "__init__" =>
       (lastCall.exc = "" <=> ExactlyOneDensityParameter(lastCall.args))
  /\ (lastCall.op = "compute" /\ lastCall.exc = "") =>
       (RLt(RInt(0), trace.density) /\ RLe(trace.density, Rat(1, 2)))

\* every boost factor is between 1 and maxBoost
BoostWithinRange ==
  \A c \in Columns(sp) :
    RLe(RInt(1), sp.boostFactors[c]) /\ RLe(sp.boostFactors[c], sp.maxBoost)

DutyPeriod(n) == IF sp.dutyCyclePeriod < n THEN sp.dutyCyclePeriod ELSE n

\* the moving average of a duty cycle and a new value v (0 or 1)
MovingAverage(duty, v, period) ==
  RDiv(RAdd(RMul(RInt(period - 1), duty), RInt(v)), RInt(period))

\* C19: the duty cycle update of a learning step averages over
\* period = min(dutyCyclePeriod, n), n the iteration counter after its
\* increment, and sets duty := ((period - 1) * duty + v) / period, v being 1
\* for a column with overlap > 0 (overlap duty cycle) or a winner (active
\* duty cycle) and 0 otherwise; the period is never below 1; and after a
\* first step with learn = True the overlap duty cycle is the indicator of
\* overlap > 0 and the active duty cycle the indicator of winning, the
\* winners' strictly above the losers'.
C19_DutyCyclesAveragedOverClampedPeriod ==
  [][LearningStep =>
       /\ DutyPeriod(sp'.iterationNum) >= 1
       /\ \A c \in Columns(sp) :
            /\ sp'.overlapDutyCycles[c] =
                 MovingAverage(sp.overlapDutyCycles[c],
                               IF RLt(RInt(0), trace'.overlaps[c]) THEN 1 ELSE 0,
                               DutyPeriod(sp'.iterationNum))
            /\ sp'.activeDutyCycles[c] =
                 MovingAverage(sp.activeDutyCycles[c],
                               IF c \in trace'.activeColumns THEN 1 ELSE 0,
                               DutyPeriod(sp'.iterationNum))
       /\ sp'.iterationNum = 1 =>
            /\ \A c \in Columns(sp) :
                 /\ sp'.overlapDutyCycles[c] =
                      IF RLt(RInt(0), trace'.overlaps[c]) THEN RInt(1) ELSE RInt(0)
                 /\ sp'.activeDutyCycles[c] =
                      IF c \in trace'.activeColumns THEN RInt(1) ELSE RInt(0)
            /\ \A w \in trace'.activeColumns,
                  l \in Columns(sp) \ trace'.activeColumns :
                 RLt(sp'.activeDutyCycles[l], sp'.activeDutyCycles[w])
    ]_vars

\* a first step with learn = True that left winners and losers, columns with
\* overlap and columns without
C19_FirstStepWitness ==
  /\ lastCall.op = "compute" /\ lastCall.exc = "" /\ lastCall.learn
  /\ sp.iterationNum = 1
  /\ trace.activeColumns # {} /\ trace.activeColumns # Columns(sp)
  /\ \E c \in Columns(sp) : sp.overlapDutyCycles[c] = RInt(1)
  /\ \E c \in Columns(sp) : sp.overlapDutyCycles[c] = RInt(0)

\* a learning step past dutyCyclePeriod, averaging over dutyCyclePeriod, that
\* left a duty cycle strictly between 0 and 1
C19_Witness ==
  /\ lastCall.op = "compute" /\ lastCall.exc = "" /\ lastCall.learn
  /\ sp.iterationNum > sp.dutyCyclePeriod
  /\ sp.dutyCyclePeriod > 1
  /\ \E c \in Columns(sp) :
       /\ RLt(RInt(0), sp.activeDutyCycles[c])
       /\ RLt(sp.activeDutyCycles[c], RInt(1))

\* C20 as claimed: the potential pools are frozen after initialization: no
\* operation on the instance (compute with either learn flag, the permanence,
\* potential and parameter setters) changes the potential pool of any column,
\* and none changes the tie breaker.
C20_PotentialPoolsFrozen ==
  [][/\ sp'.potentialPools = sp.potentialPools
     /\ sp'.tieBreaker = sp.tieBreaker]_vars

\* C20 as amended: compute with either learn flag, setPermanence and the
\* parameter setters leave the potential pool of every column as the
\* constructor built it; setPotential(c, vec) is the one operation that
\* changes a pool, and only that of column c; no operation changes the tie
\* breaker.
C20_PoolsChangeOnlyBySetPotential ==
  [][/\ \A c \in Columns(sp) :
          sp'.potentialPools[c] # sp.potentialPools[c]
            => (lastCall'.op = "setPotential" /\ lastCall'.column = c)
     /\ sp'.tieBreaker = sp.tieBreaker]_vars

\* the instance the constructor built for the arguments of this one
AsConstructed ==
  CHOOSE s \in {SpatialPooler(a, entropy).s :
                  a \in {g \in ArgsGiven :
                           g.globalInhibition = sp.globalInhibition},
                  entropy \in Entropy} : TRUE

\* after a setter call and learning steps the permanences are no longer those
\* the constructor wrote, while the pools and the tie breaker still are
C20_Witness ==
  /\ lastCall.op = "compute" /\ lastCall.exc = "" /\ lastCall.learn
  /\ nSetCalls >= 1
  /\ sp.iterationLearnNum >= 2
  /\ sp.permanences # AsConstructed.permanences
  /\ sp.potentialPools = AsConstructed.potentialPools
  /\ sp.tieBreaker = AsConstructed.tieBreaker

\* the row of winner c with the adjustment of the step that leads to the
\* next state: + synPermActiveInc on the potential synapses whose input bit
\* is on, - synPermInactiveDec on the other potential synapses
AdjustedRow(c) ==
  [j \in Inputs(sp) |->
     IF j \in sp.potentialPools[c]
     THEN IF lastCall'.inputVector[j + 1] > 0
          THEN sp.permanences[c][j] + sp.synPermActiveInc
          ELSE sp.permanences[c][j] - sp.synPermInactiveDec
     ELSE sp.permanences[c][j]]

\* what the guarded update with raisePerm = True stores for the adjusted row
AdaptedRow(c) ==
  updatePermanencesForColumn(sp, AdjustedRow(c), c, TRUE).s.permanences[c]

\* C21: in a learning step the row handed to the guarded update
\* (raisePerm = True) for a winner c is the stored row plus synPermActiveInc
\* on the potential synapses whose input bit is 1 and minus
\* synPermInactiveDec on the other potential synapses, the entries outside
\* the potential pool left as stored (a winner that is also weak is bumped
\* afterwards); and a column that is neither a winner nor weak (its overlap
\* duty cycle, as updated in the step, not below the minOverlapDutyCycles
\* the bump compares it with) keeps its permanence row, connected set and
\* connected count.
C21_AdaptWinnersWithinPool ==
  [][LearningStep =>
       /\ \A c \in trace'.activeColumns \ trace'.weakColumns :
            sp'.permanences[c] = AdaptedRow(c)
       /\ \A c \in trace'.activeColumns \cap trace'.weakColumns :
            sp'.permanences[c] =
              clip(sp, trim(sp, addOnMask(AdaptedRow(c), sp.potentialPools[c],
                                          sp.synPermBelowStimulusInc)))
       /\ \A c \in Columns(sp) \ (trace'.activeColumns \cup trace'.weakColumns) :
            /\ ~RLt(sp'.overlapDutyCycles[c], sp.minOverlapDutyCycles[c])
            /\ sp'.permanences[c] = sp.permanences[c]
            /\ sp'.connectedSynapses[c] = sp.connectedSynapses[c]
            /\ sp'.connectedCounts[c] = sp.connectedCounts[c]
    ]_vars

\* a learning step on an input with bits on and off that left a winner, not
\* weak, with a permanence above synPermConnected + synPermActiveInc on the
\* bit that was on and a 0 outside its pool, beside a column that neither
\* won nor was weak
C21_Witness ==
  /\ lastCall.op = "compute" /\ lastCall.exc = "" /\ lastCall.learn
  /\ lastCall.inputVector = <<1, 0, 0>>
  /\ \E c \in trace.activeColumns \ trace.weakColumns :
       /\ 0 \in sp.potentialPools[c]
       /\ sp.permanences[c][0] > sp.synPermConnected + sp.synPermActiveInc
       /\ \E j \in Inputs(sp) \ sp.potentialPools[c] : sp.permanences[c][j] = 0
  /\ Columns(sp) \ (trace.activeColumns \cup trace.weakColumns) # {}

\* the overlaps of the call that leads to the next state, multiplied by the
\* boost factors the call found
BoostedOverlaps ==
  [c \in Columns(sp) |-> RMul(sp.boostFactors[c], trace'.overlaps[c])]

\* C22: the boost factors influence the selection of the winners only when
\* learn = True: with learn = False the winners are selected from the
\* overlaps (zeroed below stimulusThreshold) plus the tie breaker, with
\* learn = True from the boosted overlaps plus the tie breaker; and a
\* learning step updates the overlap duty cycle from the indicator of
\* overlap > 0 of the overlaps that were not boosted.
C22_BoostOnlyWhenLearning ==
  [][(lastCall'.op = "compute" /\ lastCall'.exc = "") =>
       /\ trace'.overlaps = calculateOverlap(sp, lastCall'.inputVector)
       /\ ~lastCall'.learn =>
            /\ trace'.scores =
                 [c \in Columns(sp) |->
                    RAdd(trace'.overlaps[c], sp.tieBreaker[c])]
            /\ trace'.activeColumns = inhibitColumns(sp, trace'.overlaps)
       /\ lastCall'.learn =>
            /\ trace'.scores =
                 [c \in Columns(sp) |->
                    RAdd(BoostedOverlaps[c], sp.tieBreaker[c])]
            /\ trace'.activeColumns = inhibitColumns(sp, BoostedOverlaps)
            /\ \A c \in Columns(sp) :
                 sp'.overlapDutyCycles[c] =
                   MovingAverage(sp.overlapDutyCycles[c],
                                 IF RLt(RInt(0), trace'.overlaps[c]) THEN 1 ELSE 0,
                                 DutyPeriod(sp'.iterationNum))
    ]_vars

\* a call with learn = False on an instance with a boost factor above 1 on a
\* column with overlap, where the boosted overlaps would have selected other
\* winners
C22_Witness ==
  /\ lastCall.op = "compute" /\ lastCall.exc = "" /\ ~lastCall.learn
  /\ \E c \in Columns(sp) :
       RLt(RInt(1), sp.boostFactors[c]) /\ RLt(RInt(0), trace.overlaps[c])
  /\ trace.activeColumns #
       inhibitColumns(sp, [c \in Columns(sp) |->
                             RMul(sp.boostFactors[c], trace.overlaps[c])])

\* column c and the columns within r of it (one-dimensional region, no
\* wrapping)
WithinRadius(c, r) ==
  {k \in Columns(sp) : k - c <= r /\ c - k <= r}

\* C23: at a refresh of the min duty cycles the local method sets
\* minOverlapDutyCycles[c] to minPctOverlapDutyCycles times the largest
\* overlap duty cycle among c and its neighbours within the inhibition
\* radius, and minActiveDutyCycles[c] likewise; the global method (taken when
\* globalInhibition is set or the radius exceeds numInputs) gives the same
\* values as the local one whenever the radius makes the neighbourhood of
\* every column the whole region: minPct times the largest duty cycle of all
\* columns.
C23_MinDutyLocalAndGlobal ==
  lastCall.op = "updateMinDutyCycles" =>
    /\ \A c \in Columns(sp) :
         /\ sp.minOverlapDutyCycles[c] =
              RMul(sp.minPctOverlapDutyCycles,
                   RMaxOf({sp.overlapDutyCycles[k] :
                             k \in WithinRadius(c, sp.inhibitionRadius)}))
         /\ sp.minActiveDutyCycles[c] =
              RMul(sp.minPctActiveDutyCycles,
                   RMaxOf({sp.activeDutyCycles[k] :
                             k \in WithinRadius(c, sp.inhibitionRadius)}))
         /\ sp2.minOverlapDutyCycles[c] =
              RMul(sp.minPctOverlapDutyCycles,
                   RMaxOf({sp.overlapDutyCycles[k] : k \in Columns(sp)}))
         /\ sp2.minActiveDutyCycles[c] =
              RMul(sp.minPctActiveDutyCycles,
                   RMaxOf({sp.activeDutyCycles[k] : k \in Columns(sp)}))
    /\ updateMinDutyCycles(sp) =
         IF sp.globalInhibition \/ sp.inhibitionRadius > sp.numInputs
         THEN sp2 ELSE sp
    /\ (\A c \in Columns(sp) :
          WithinRadius(c, sp.inhibitionRadius) = Columns(sp))
       => sp2 = sp

\* the radius covers the whole region from every column without exceeding
\* numInputs under local inhibition, so the code takes the local method, and
\* the min duty cycles are above 0 and below the duty cycles of some column
C23_Witness ==
  /\ lastCall.op = "updateMinDutyCycles"
  /\ ~sp.globalInhibition /\ sp.inhibitionRadius <= sp.numInputs
  /\ \A c \in Columns(sp) : WithinRadius(c, sp.inhibitionRadius) = Columns(sp)
  /\ sp2 = sp
  /\ \E c \in Columns(sp) :
       /\ RLt(RInt(0), sp.minOverlapDutyCycles[c])
       /\ RLt(sp.minOverlapDutyCycles[c], sp.overlapDutyCycles[c])
  /\ \E c \in Columns(sp) : sp.overlapDutyCycles[c] = RInt(0)

\* the inhibition radius of an instance whose every column is connected
\* across the whole input
LargestRadius ==
  PyRound(RMax(RInt(1),
               RDiv(RSub(RMul(RInt(sp.numInputs), avgColumnsPerInput(sp)),
                         RInt(1)),
                    RInt(2))))

RECURSIVE NthLargest(_, _, _)
NthLargest(perm, mask, n) ==
  LET top == CHOOSE j \in mask : \A k \in mask : perm[k] <= perm[j]
  IN IF n = 1 THEN perm[top] ELSE NthLargest(perm, mask \ {top}, n - 1)

\* the smallest k >= 0 with v + k * synPermBelowStimulusInc > synPermConnected
RaiseSteps(v) ==
  IF v > sp.synPermConnected THEN 0
  ELSE (sp.synPermConnected - v) \div sp.synPermBelowStimulusInc + 1

\* the closed form: k * synPermBelowStimulusInc added once on the mask, k
\* taken from the stimulusThreshold-th largest permanence on the mask, then
\* the clamp
ClosedFormRaise(perm, mask) ==
  clip(sp, addOnMask(perm, mask,
                     RaiseSteps(NthLargest(perm, mask, sp.stimulusThreshold))
                       * sp.synPermBelowStimulusInc))

\* C25 as claimed: for every permanence vector and every mask with at least
\* stimulusThreshold entries the loop of the raise gives (after the clamp)
\* the vector of the closed form.
C25_RaiseLoopIsClosedForm ==
  (lastCall.op = "_raisePermanenceToThreshold" /\ lastCall.exc = "") =>
    clip(sp, lastCall.raised) = ClosedFormRaise(lastCall.perm, lastCall.mask)

\* what the closed form leaves out: the loop starts from the clamped vector,
\* and it counts the connected entries of the whole vector
RaiseWithinClosedForm ==
  /\ \A j \in Inputs(sp) : lastCall.perm[j] >= sp.synPermMin
  /\ \A j \in Inputs(sp) \ lastCall.mask :
       lastCall.perm[j] <= sp.synPermConnected

\* C25 as amended: for every permanence vector with no entry below
\* synPermMin and no entry outside the mask above synPermConnected, and every
\* mask with at least stimulusThreshold entries, the loop of the raise gives
\* (after the clamp) the vector of the closed form.
C25_RaiseLoopIsClosedFormOnClampedMask ==
  (/\ lastCall.op = "_raisePermanenceToThreshold" /\ lastCall.exc = ""
   /\ RaiseWithinClosedForm) =>
    clip(sp, lastCall.raised) = ClosedFormRaise(lastCall.perm, lastCall.mask)

\* a raise at stimulusThreshold 2 that went round the loop four times: the
\* second largest permanence on the mask was 7 and is 11 now, and an entry
\* off the mask kept its 0
C25_Witness ==
  /\ lastCall.op = "_raisePermanenceToThreshold" /\ lastCall.exc = ""
  /\ RaiseWithinClosedForm
  /\ sp.stimulusThreshold = 2
  /\ lastCall.mask = {0, 1}
  /\ lastCall.perm = (0 :> 7 @@ 1 :> 10 @@ 2 :> 0)
  /\ lastCall.raised = (0 :> 11 @@ 1 :> 14 @@ 2 :> 0)

\* coordinate d of the flat index n in a row-major grid
CoordOf(n, dims, d) == (n \div DimProd(dims, d + 1)) % dims[d]

\* whether coordinate y is within radius of x on an axis of the given size
WithinOnAxis(y, x, size, radius, wrapAround) ==
  IF wrapAround
  THEN \E k \in (0 - radius)..radius : (x + k) % size = y
  ELSE y - x <= radius /\ x - y <= radius

\* C26: _getNeighborsND(idx, dims, radius, wrap) returns each flat index at
\* most once, never idx itself, only indices in [0, prod(dims)), and exactly
\* the cells whose coordinate in every dimension is within radius of that of
\* idx (modulo dims[d] with wrap, inside the grid otherwise), also when
\* 2 * radius + 1 >= dims[d].
C26_NeighborsAreTheHypercube ==
  lastCall.op = "_getNeighborsND" =>
    LET q == lastCall.neighbors
        dims == lastCall.dimensions
    IN /\ \A a, b \in 1..Len(q) : a # b => q[a] # q[b]
       /\ \A a \in 1..Len(q) : q[a] # lastCall.columnIndex
       /\ \A a \in 1..Len(q) : q[a] >= 0 /\ q[a] < DimProd(dims, 1)
       /\ SeqToSet(q) =
            {n \in 0..(DimProd(dims, 1) - 1) :
               /\ n # lastCall.columnIndex
               /\ \A d \in 1..Len(dims) :
                    WithinOnAxis(CoordOf(n, dims, d),
                                 CoordOf(lastCall.columnIndex, dims, d),
                                 dims[d], lastCall.radius, lastCall.wrapAround)}

\* a wrapped neighbourhood on the 3 x 3 grid whose range of 5 passes every
\* row and column more than once: the neighbours are the 8 other cells
C26_Witness ==
  /\ lastCall.op = "_getNeighborsND"
  /\ lastCall.wrapAround
  /\ lastCall.dimensions = <<3, 3>>
  /\ lastCall.radius = 2
  /\ Len(lastCall.neighbors) = 8

\* C27: _mapColumn returns what its documentation states: in a
\* one-dimensional topology column 0 maps to input 0; with 3 columns over 7
\* inputs column 1 maps to input 3; with column dimensions [3, 5] and input
\* dimensions [7, 11] column 3 maps to input 8; and the result is always an
\* input index in [0, numInputs).
C27_MapColumnAsDocumented ==
  lastCall.op = "_mapColumn" =>
    /\ (Len(lastCall.columnDimensions) = 1 /\ lastCall.index = 0)
         => lastCall.inputIndex = 0
    /\ (/\ lastCall.columnDimensions = <<3>>
        /\ lastCall.inputDimensions = <<7>>
        /\ lastCall.index = 1)
         => lastCall.inputIndex = 3
    /\ (/\ lastCall.columnDimensions = <<3, 5>>
        /\ lastCall.inputDimensions = <<7, 11>>
        /\ lastCall.index = 3)
         => lastCall.inputIndex = 8
    /\ lastCall.inputIndex >= 0
    /\ lastCall.inputIndex < DimProd(lastCall.inputDimensions, 1)

\* the guarded update is in its loop
InRaiseLoop ==
  lastCall.op = "_updatePermanencesForColumn" /\ lastCall.pc = "while"

\* the guarded update has returned or raised
UpdateOver ==
  lastCall.op = "_updatePermanencesForColumn" /\ lastCall.pc \in {"done", "raised"}

\* the iterations that lift a permanence of synPermMin above synPermConnected
MostIterations ==
  (sp.synPermConnected - sp.synPermMin) \div sp.synPermBelowStimulusInc + 1

\* C28: the loop of the raise, entered with a mask of at least
\* stimulusThreshold entries and synPermBelowStimulusInc > 0, ends for every
\* permanence vector (after at most as many iterations as lift synPermMin
\* above synPermConnected) and the update stores what compute's guarded
\* update stores; with a mask of fewer than stimulusThreshold entries the
\* update raises instead of looping and leaves the instance, the stored row
\* of the column included, unchanged.
C28_RaiseLoopTerminates ==
  /\ InRaiseLoop ~> UpdateOver
  /\ [](lastCall.op = "_updatePermanencesForColumn" =>
          /\ lastCall.n <= MostIterations
          /\ lastCall.pc = "done" =>
               sp.permanences[lastCall.index] =
                 updatePermanencesForColumn(sp, lastCall.given, lastCall.index,
                                            TRUE).s.permanences[lastCall.index])
  /\ [][(lastCall'.op = "_updatePermanencesForColumn"
         /\ lastCall.op # "_updatePermanencesForColumn") =>
          /\ sp.synPermBelowStimulusInc > 0
          /\ (Cardinality(sp.potentialPools[lastCall'.index])
                < sp.stimulusThreshold)
               <=> (lastCall'.pc = "raised" /\ lastCall'.exc = "Exception")
          /\ lastCall'.pc = "raised" => sp' = sp]_vars

\* an update that went round the loop as often as a loop can, from a mask
\* of zeros, and stored the row
C28_Witness ==
  /\ lastCall.op = "_updatePermanencesForColumn" /\ lastCall.pc = "done"
  /\ lastCall.n = MostIterations
  /\ sp.connectedCounts[lastCall.index] >= sp.stimulusThreshold

\* an update on a column whose mask of two is below stimulusThreshold 3: it
\* raised, and the column has the row it had
C28_RaisedWitness ==
  /\ lastCall.op = "_updatePermanencesForColumn" /\ lastCall.pc = "raised"
  /\ sp.stimulusThreshold = 3
  /\ sp.permanences[lastCall.index] # clip(sp, trim(sp, lastCall.given))

\* minOverlapDutyCycles and minActiveDutyCycles are 0 for every column
MinDutyCyclesZero ==
  \A c \in Columns(sp) :
    sp.minOverlapDutyCycles[c] = RInt(0) /\ sp.minActiveDutyCycles[c] = RInt(0)

\* every boost factor is 1
BoostFactorsOne == \A c \in Columns(sp) : sp.boostFactors[c] = RInt(1)

\* a learning compute call whose iterationNum, as incremented by the call, is
\* a multiple of updatePeriod
UpdateRoundStep ==
  LearningStep /\ sp'.iterationNum % sp'.updatePeriod = 0

\* C29: a new instance has minOverlapDutyCycles and minActiveDutyCycles 0 for
\* every column and every boost factor 1, and as long as no learning compute
\* call has had an iterationNum that is a multiple of updatePeriod this stays
\* so: only such a call takes the min duty cycles off 0, and a learning
\* step that starts with them at 0 (that call included) selects no weak
\* column, bumps no row outside the winners and leaves every boost factor 1.
C29_NoBumpNoBoostBeforeFirstUpdateRound ==
  /\ MinDutyCyclesZero /\ BoostFactorsOne
  /\ [][(MinDutyCyclesZero /\ BoostFactorsOne) =>
          /\ BoostFactorsOne'
          /\ ~UpdateRoundStep => MinDutyCyclesZero'
          /\ LearningStep =>
               /\ trace'.weakColumns = {}
               /\ \A c \in Columns(sp) \ trace'.activeColumns :
                    sp'.permanences[c] = sp.permanences[c]]_vars

\* two learning steps and a call with learn = False between them that took
\* the multiple of updatePeriod: the duty cycles have moved, the min duty
\* cycles are still 0, no column was weak and every boost factor is 1
C29_Witness ==
  /\ lastCall.op = "compute" /\ lastCall.exc = "" /\ lastCall.learn
  /\ sp.iterationLearnNum = 2 /\ sp.iterationNum = 3 /\ sp.updatePeriod = 2
  /\ MinDutyCyclesZero /\ BoostFactorsOne
  /\ trace.weakColumns = {}
  /\ \E c \in Columns(sp) : RLt(RInt(0), sp.activeDutyCycles[c])
  /\ \E c \in Columns(sp) : sp.overlapDutyCycles[c] = RInt(0)

\* every stored permanence is 0 or between synPermTrimThreshold and
\* synPermMax
StoredRowsTrimmed ==
  \A c \in Columns(sp) : \A j \in Inputs(sp) :
    \/ sp.permanences[c][j] = 0
    \/ /\ sp.synPermTrimThreshold <= sp.permanences[c][j]
       /\ sp.permanences[c][j] <= sp.synPermMax

\* C30: a bump of the weak columns that starts with every stored permanence
\* 0 or in [synPermTrimThreshold, synPermMax] leaves each weak column with a
\* row in which no permanence is below what it was, with a connected count
\* not below what it was, and, synPermBelowStimulusInc being below
\* synPermTrimThreshold, with a 0 wherever the row had a 0.
C30_BumpNeverLowers ==
  [][(lastCall'.op = "_bumpUpWeakColumns" /\ StoredRowsTrimmed) =>
       \A c \in weakColumnsOf(sp) :
         /\ \A j \in Inputs(sp) :
              /\ sp'.permanences[c][j] >= sp.permanences[c][j]
              /\ (/\ sp.synPermBelowStimulusInc < sp.synPermTrimThreshold
                  /\ sp.permanences[c][j] = 0)
                 => sp'.permanences[c][j] = 0
         /\ sp'.connectedCounts[c] >= sp.connectedCounts[c]
    ]_vars

\* a bumped column whose potential pool holds a 0 that stayed 0 and a
\* synapse the bump lifted from below synPermConnected to synPermConnected,
\* now counted as connected
C30_Witness ==
  /\ lastCall.op = "_bumpUpWeakColumns"
  /\ sp.synPermBelowStimulusInc < sp.synPermTrimThreshold
  /\ \E c \in trace.weakColumns :
       /\ \E j \in sp.potentialPools[c] : sp.permanences[c][j] = 0
       /\ \E j \in sp.potentialPools[c] :
            /\ sp.permanences[c][j] = sp.synPermConnected
            /\ j \in sp.connectedSynapses[c]
       /\ sp.connectedCounts[c] = 1

=============================================================================
